---- MODULE Spec2Model ----
(***************************************************************************)
(* Job lifecycle and file storage of the thermal-detection backend:        *)
(* JobStorage (backend/app/storage.py) and the upload / background-task    *)
(* orchestration of backend/app/main.py.                                   *)
(*                                                                         *)
(* The storage directory is the state: one directory per job (manifest,    *)
(* input area, output area, detections file, result archives) and one      *)
(* staging directory per upload request, all under the same base           *)
(* directory.  Request handlers run on one event loop: a handler is        *)
(* atomic between two awaits, and the background task, which awaits        *)
(* nothing, keeps the loop from its first to its last statement.  Its      *)
(* intermediate writes are still separate states of the directory.         *)
(*                                                                         *)
(* Abstractions: a file name is its stem (every image has the same         *)
(* extension unless stated), a confidence is a number of thousandths, a         *)
(* timestamp is a reading of the counter now.                              *)
(***************************************************************************)
EXTENDS Integers, Sequences, FiniteSets, TLC

VARIABLES
    jobs,      \* job id -> None, or the content of the job's directory
    temp,      \* job id -> None, or the files of its staging directory
    up,        \* job id -> state of the upload_images handler
    task,      \* job id -> state of process_images_from_paths_task
    running,   \* the job whose background task holds the event loop, or 0
    now,       \* the clock read by datetime.now()
    nfiles,    \* files received over all uploads
    nreqs,     \* rename, delete and download requests served
    quota,     \* what the clients send in this run: uploads, files, requests;
               \* and whether the startup of this run loaded the model
    last       \* the last storage call answered: who, what, result

vars == <<jobs, temp, up, task, running, now, nfiles, nreqs, quota, last>>

\* ------------------------------------------------------------------ bounds

\* Job ids (uuid4 values) a run can draw.
MaxJobs == 3
\* Files received over the upload requests of a run.
MaxFiles == 3
\* Rename, delete and download requests (or direct calls) of a run.
MaxRequests == 2
\* Clock readings that fall within one second (default names have
\* second resolution, timestamps have not).
TicksPerSecond == 2
\* The length of the file names tried on sanitize_filename.
MaxName == 4

\* ------------------------------------------------------------------ values

None == [none |-> TRUE]

\* A file that may be missing: <<>> when it is, else <<its content>>.
NoFile == <<>>

\* Job ids.  An upload request, the staging directory it creates and the
\* job it creates share one index: uuid4 never repeats an id.
JobIds == 1..MaxJobs

\* Python's {} and dict update.
EmptyMap == [x \in {} |-> 0]
Put(m, k, v) == (k :> v) @@ m
Remove(m, k) == [x \in DOMAIN m \ {k} |-> m[x]]

\* What a file holds, as far as cv2.imread and the detector can tell:
\* whether it decodes, and the confidences of the persons the model finds.
Person == [ok |-> TRUE, confs |-> <<800>>]
Faint == [ok |-> TRUE, confs |-> <<300>>]
Corrupt == [ok |-> FALSE, confs |-> <<>>]
\* A file of no bytes.
Empty == [ok |-> FALSE, confs |-> <<>>, size |-> 0]

\* The bytes of a .zip file: an archive zipfile can open, with the list
\* of its members, or bytes that are no archive.
Zip(members) == [ok |-> TRUE, members |-> members]
NotAZip == [ok |-> FALSE, members |-> <<>>]

\* The files a client uploads.  The data of a .zip file is the list of
\* its members.
UploadFiles ==
    { [stem |-> "a", ext |-> ".png", data |-> Person],
      [stem |-> "a_1", ext |-> ".png", data |-> Faint],
      [stem |-> "b", ext |-> ".png", data |-> Corrupt],
      [stem |-> "t", ext |-> ".txt", data |-> Corrupt],
      [stem |-> "z", ext |-> ".zip",
       data |-> Zip(<< [dir |-> "", stem |-> "b", ext |-> ".png", data |-> Corrupt],
                       [dir |-> "", stem |-> "t", ext |-> ".txt", data |-> Corrupt] >>)],
      [stem |-> "y", ext |-> ".zip",
       data |-> Zip(<< [dir |-> "", stem |-> "a", ext |-> ".png", data |-> Person],
                       [dir |-> "", stem |-> "b", ext |-> ".png", data |-> Corrupt] >>)] }

\* The file names given to sanitize_filename: every text of up to
\* MaxName characters over a small alphabet, and a longer path.
NameChars == {"/", ".", " ", ":", "a", "_"}

RECURSIVE Texts(_)
Texts(n) ==
    IF n = 0 THEN { <<>> }
    ELSE Texts(n - 1) \cup
         { Append(t, c) : t \in { x \in Texts(n - 1) : Len(x) = n - 1 }, c \in NameChars }

GivenNames ==
    Texts(MaxName) \cup
    { <<".", ".", "/", ".", ".", "/", ".", ".", "/", "e", "t", "c", "/",
        "p", "a", "s", "s", "w", "d">> }

\* Requested display names: <<>> is "name omitted".
RequestedNames == { <<>>, <<"n">> }
NewNames == { "", "n" }

\* Confidence thresholds passed to create_job (thousandths).
Thresholds == { 500 }

\* The confidence_threshold form field of an upload: <<>> when the field
\* is not sent, else <<its text>>, a text being its characters.
ConfidenceForms ==
    { <<>>,
      << <<"0">> >>,
      << <<"1">> >>,
      << <<"1", ".", "5">> >>,
      << <<"-", "0", ".", "1">> >>,
      << <<"1", ".", "0", "0", "1">> >>,
      << <<"a">> >>,
      << <<"n", "a", "n">> >>,
      << <<"i", "n", "f">> >>,
      << <<>> >> }

\* ------------------------------------------------------------------ numbers as text

DigitValue ==
    ("0" :> 0) @@ ("1" :> 1) @@ ("2" :> 2) @@ ("3" :> 3) @@ ("4" :> 4) @@
    ("5" :> 5) @@ ("6" :> 6) @@ ("7" :> 7) @@ ("8" :> 8) @@ ("9" :> 9)

IsDigits(s) == \A i \in DOMAIN s : s[i] \in DOMAIN DigitValue

\* The integer a run of digits denotes.
RECURSIVE IntOf(_)
IntOf(s) ==
    IF s = <<>> THEN 0
    ELSE 10 * IntOf(SubSeq(s, 1, Len(s) - 1)) + DigitValue[s[Len(s)]]

\* The thousandths a run of fraction digits denotes (the texts sent carry
\* at most three).
FractionOf(s) ==
    LET digit(i) == IF i <= Len(s) THEN DigitValue[s[i]] ELSE 0
    IN  100 * digit(1) + 10 * digit(2) + digit(3)

\* Python's float(text), for texts without blanks, exponent or
\* underscores: an optional sign, then nan, inf, or digits with at most
\* one point and a digit on one side of it at least.  kind "error" is
\* ValueError; value is in thousandths.
ParseFloat(text) ==
    LET signed == text # <<>> /\ Head(text) \in {"+", "-"}
        negative == signed /\ Head(text) = "-"
        body == IF signed THEN Tail(text) ELSE text
        points == { i \in DOMAIN body : body[i] = "." }
        point == IF points = {} THEN Len(body) + 1 ELSE CHOOSE i \in points : TRUE
        whole == SubSeq(body, 1, point - 1)
        fraction == SubSeq(body, point + 1, Len(body))
        magnitude == 1000 * IntOf(whole) + FractionOf(fraction)
    IN  IF body = <<"n", "a", "n">>
        THEN [kind |-> "nan", value |-> 0]
        ELSE IF body = <<"i", "n", "f">>
        THEN [kind |-> "inf", value |-> IF negative THEN -1 ELSE 1]
        ELSE IF /\ Cardinality(points) <= 1
                /\ IsDigits(whole) /\ IsDigits(fraction)
                /\ Len(whole) + Len(fraction) > 0
        THEN [kind |-> "finite", value |-> IF negative THEN -magnitude ELSE magnitude]
        ELSE [kind |-> "error", value |-> 0]

\* The digits of a natural number, and repr() of a float given in
\* thousandths: the shortest text that reads back as the same float
\* ("0.8", "0.305", "1.0"), which is what json.dump writes.
DigitChars == <<"0", "1", "2", "3", "4", "5", "6", "7", "8", "9">>

RECURSIVE EncodeInt(_)
EncodeInt(n) ==
    IF n < 10 THEN <<DigitChars[n + 1]>>
    ELSE Append(EncodeInt(n \div 10), DigitChars[(n % 10) + 1])

EncodeFloat(c) ==
    LET f == c % 1000
        digits == <<DigitChars[(f \div 100) + 1], DigitChars[((f \div 10) % 10) + 1],
                    DigitChars[(f % 10) + 1]>>
        kept == IF f % 10 # 0 THEN 3 ELSE IF f % 100 # 0 THEN 2 ELSE 1
    IN  EncodeInt(c \div 1000) \o <<".">> \o SubSeq(digits, 1, kept)

\* ------------------------------------------------------------------ storage.py

\* JobStorage._load_manifest: the manifest of a job directory, None if
\* there is no manifest.json (no such directory).
load_manifest(J, id) ==
    IF id \in DOMAIN J /\ J[id] # None THEN J[id].manifest ELSE None

\* The scan of _generate_unique_name and update_job_name over the base
\* directory: the names of the manifests found, a name that is falsy (the
\* empty string) left out.  Staging directories hold no manifest.
ExistingNames(J) ==
    { J[j].manifest.name :
        j \in { k \in DOMAIN J : J[k] # None /\ J[k].manifest.name # "" } }

\* f"{name}_{index}"
Suffixed(name, index) == name \o "_" \o ToString(index)

\* The while loop of _generate_unique_name / update_job_name: the first
\* index >= the given one for which name_index is free.
RECURSIVE FreeIndex(_, _, _)
FreeIndex(name, existing, index) ==
    IF Suffixed(name, index) \in existing
    THEN FreeIndex(name, existing, index + 1)
    ELSE index

\* f"Task_{datetime.now().strftime('%Y%m%d_%H%M%S')}"
DefaultName(t) == "Task_" \o ToString(t \div TicksPerSecond)

\* _generate_unique_name that returns the requested or default name
\* without looking at the stored names.
generate_unique_name_unchecked(J, requested, t) ==
    IF requested = <<>> THEN DefaultName(t) ELSE requested[1]

\* JobStorage._generate_unique_name
generate_unique_name(J, requested, t) ==
    LET requested_name == IF requested = <<>> THEN DefaultName(t) ELSE requested[1]
        existing_names == ExistingNames(J)
    IN  IF requested_name \notin existing_names
        THEN requested_name
        ELSE Suffixed(requested_name, FreeIndex(requested_name, existing_names, 1))

\* create_job that writes the manifest of a job already in work.
create_job_started(J, id, name, confidence_threshold, total_images, t) ==
    [J EXCEPT ![id] =
        [ manifest |->
            [ job_id |-> id,
              name |-> generate_unique_name(J, name, t),
              status |-> "processing",
              total_images |-> total_images,
              processed_images |-> 0,
              images_with_detections |-> 0,
              created_at |-> t,
              completed_at |-> <<>>,
              parameters |-> [confidence_threshold |-> confidence_threshold] ],
          input |-> EmptyMap,
          output |-> EmptyMap,
          detections |-> NoFile,
          zips |-> EmptyMap ] ]

\* JobStorage.create_job: the directory with its two areas and the
\* initial manifest; what a directory of that id already holds beside the
\* manifest stays (mkdir(exist_ok=True)).
create_job(J, id, name, confidence_threshold, total_images, t) ==
    [J EXCEPT ![id] =
        [ manifest |->
            [ job_id |-> id,
              name |-> generate_unique_name(J, name, t),
              status |-> "queued",
              total_images |-> total_images,
              processed_images |-> 0,
              images_with_detections |-> 0,
              created_at |-> t,
              completed_at |-> <<>>,
              parameters |-> [confidence_threshold |-> confidence_threshold] ],
          input |-> IF J[id] = None THEN EmptyMap ELSE J[id].input,
          output |-> IF J[id] = None THEN EmptyMap ELSE J[id].output,
          detections |-> IF J[id] = None THEN NoFile ELSE J[id].detections,
          zips |-> IF J[id] = None THEN EmptyMap ELSE J[id].zips ] ]

\* update_status that writes a manifest where it found none.
update_status_creates(J, id, status, processed_images, images_with_detections, t) ==
    IF load_manifest(J, id) = None
    THEN [J EXCEPT ![id] =
            [ manifest |->
                [ job_id |-> id, name |-> "", status |-> status, total_images |-> 0,
                  processed_images |-> 0, images_with_detections |-> 0,
                  created_at |-> t, completed_at |-> <<>>,
                  parameters |-> [confidence_threshold |-> 0] ],
              input |-> EmptyMap, output |-> EmptyMap,
              detections |-> NoFile, zips |-> EmptyMap ] ]
    ELSE [J EXCEPT ![id].manifest =
            [@ EXCEPT
                !.status = status,
                !.processed_images =
                    IF processed_images = <<>> THEN @ ELSE processed_images[1],
                !.images_with_detections =
                    IF images_with_detections = <<>> THEN @
                    ELSE images_with_detections[1],
                !.completed_at =
                    IF status \in {"completed", "failed"} THEN <<t>> ELSE @]]

\* update_status with the two counters passed in each other's place.
update_status_swapped(J, id, status, processed_images, images_with_detections, t) ==
    IF load_manifest(J, id) = None
    THEN J
    ELSE [J EXCEPT ![id].manifest =
            [@ EXCEPT
                !.status = status,
                !.processed_images =
                    IF images_with_detections = <<>> THEN @
                    ELSE images_with_detections[1],
                !.images_with_detections =
                    IF processed_images = <<>> THEN @ ELSE processed_images[1],
                !.completed_at =
                    IF status \in {"completed", "failed"} THEN <<t>> ELSE @ ]]

\* update_status that writes 0 for a counter that is not passed.
update_status_resets(J, id, status, processed_images, images_with_detections, t) ==
    IF load_manifest(J, id) = None
    THEN J
    ELSE [J EXCEPT ![id].manifest =
            [@ EXCEPT
                !.status = status,
                !.processed_images =
                    IF processed_images = <<>> THEN 0 ELSE processed_images[1],
                !.images_with_detections =
                    IF images_with_detections = <<>> THEN 0
                    ELSE images_with_detections[1],
                !.completed_at =
                    IF status \in {"completed", "failed"} THEN <<t>> ELSE @ ]]

\* update_status that stamps completed_at on every call.
update_status_always_stamps(J, id, status, processed_images, images_with_detections, t) ==
    IF load_manifest(J, id) = None
    THEN J
    ELSE [J EXCEPT ![id].manifest =
            [@ EXCEPT
                !.status = status,
                !.processed_images =
                    IF processed_images = <<>> THEN @ ELSE processed_images[1],
                !.images_with_detections =
                    IF images_with_detections = <<>> THEN @
                    ELSE images_with_detections[1],
                !.completed_at = <<t>> ]]

\* JobStorage.update_status; processed_images and images_with_detections
\* are <<>> when the argument is not passed.
update_status(J, id, status, processed_images, images_with_detections, t) ==
    IF load_manifest(J, id) = None
    THEN J
    ELSE [J EXCEPT ![id].manifest =
            [@ EXCEPT
                !.status = status,
                !.processed_images =
                    IF processed_images = <<>> THEN @ ELSE processed_images[1],
                !.images_with_detections =
                    IF images_with_detections = <<>> THEN @
                    ELSE images_with_detections[1],
                !.completed_at =
                    IF status \in {"completed", "failed"} THEN <<t>> ELSE @ ]]

\* update_job_name that answers True whatever the id.
update_job_name_result_always(J, id) == TRUE

\* update_job_name that writes a fresh manifest around the new name:
\* the parameters fall back to create_job's default threshold, 0.62.
update_job_name_fresh_manifest(J, id, new_name) ==
    IF load_manifest(J, id) = None
    THEN J
    ELSE [J EXCEPT ![id].manifest.name = new_name,
                   ![id].manifest.parameters = [confidence_threshold |-> 620]]

\* update_job_name that writes the new name into the manifest as it was
\* at creation: status queued, nothing processed, not completed.
update_job_name_stale_manifest(J, id, new_name) ==
    IF load_manifest(J, id) = None
    THEN J
    ELSE [J EXCEPT ![id].manifest.name = new_name,
                   ![id].manifest.status = "queued",
                   ![id].manifest.processed_images = 0,
                   ![id].manifest.images_with_detections = 0,
                   ![id].manifest.completed_at = <<>>]

\* JobStorage.update_job_name: what it returns, and the stored manifests
\* afterwards.
update_job_name_result(J, id) == load_manifest(J, id) # None

update_job_name(J, id, new_name) ==
    IF load_manifest(J, id) = None
    THEN J
    ELSE LET old_name == J[id].manifest.name
             existing_names == { n \in ExistingNames(J) : n # old_name }
             unique_name ==
                 IF new_name \in existing_names
                 THEN Suffixed(new_name, FreeIndex(new_name, existing_names, 1))
                 ELSE new_name
         IN  [J EXCEPT ![id].manifest.name = unique_name]

\* JobStorage.save_image: open() raises when the area is missing.
save_image_raises(J, id) == J[id] = None

save_image(J, id, filename, image_data, is_input) ==
    IF is_input
    THEN [J EXCEPT ![id].input = Put(@, filename, image_data)]
    ELSE [J EXCEPT ![id].output = Put(@, filename, image_data)]

\* JobStorage.save_detections: the detections file is rewritten as a
\* whole; opening it raises when the job directory is gone.
save_detections_raises(J, id) == J[id] = None

\* storage.py:86-104: an ImageResult becomes a dict (the class of a
\* detection is read from class_name), anything else is kept as it is.
to_dict(img) ==
    IF "model" \in DOMAIN img
    THEN [ filename |-> img.filename,
           detections |->
               [ k \in DOMAIN img.detections |->
                   [ bbox |-> img.detections[k].bbox,
                     confidence |-> img.detections[k].confidence,
                     class |-> img.detections[k].class_name ] ],
           success |-> img.success,
           error |-> img.error ]
    ELSE img

\* json.dump and json.load of a list of such dicts: numbers are written
\* as text and read back, strings, booleans and null go through as they
\* are.
json_dump(dicts) ==
    [ i \in DOMAIN dicts |->
        [dicts[i] EXCEPT !.detections =
            [ k \in DOMAIN @ |->
                [@[k] EXCEPT
                    !.bbox = [b \in DOMAIN @ |-> EncodeInt(@[b])],
                    !.confidence = EncodeFloat(@) ] ] ] ]

json_load(text) ==
    [ i \in DOMAIN text |->
        [text[i] EXCEPT !.detections =
            [ k \in DOMAIN @ |->
                [@[k] EXCEPT
                    !.bbox = [b \in DOMAIN @ |-> IntOf(@[b])],
                    !.confidence = ParseFloat(@).value ] ] ] ]

\* save_detections that adds the records to those already in the file.
save_detections_appends(J, id, detections) ==
    [J EXCEPT ![id].detections =
        << (IF @ = NoFile THEN <<>> ELSE @[1])
               \o json_dump([i \in DOMAIN detections |-> to_dict(detections[i])]) >>]

save_detections(J, id, detections) ==
    [J EXCEPT ![id].detections =
        << json_dump([i \in DOMAIN detections |-> to_dict(detections[i])]) >>]

\* JobStorage.get_status and JobStorage.get_detections
get_status(J, id) == load_manifest(J, id)

\* (NoFile for Python's None, else <<the list read>>)
get_detections(J, id) ==
    IF id \in DOMAIN J /\ J[id] # None /\ J[id].detections # NoFile
    THEN <<json_load(J[id].detections[1])>>
    ELSE NoFile

\* sort(key=created_at, reverse=True) of the manifests of the given
\* directories (manifests of equal created_at keep the order in which
\* iterdir gave them, which is any).
RECURSIVE SortedByCreation(_, _)
SortedByCreation(J, ids) ==
    IF ids = {} THEN <<>>
    ELSE LET newest ==
                CHOOSE i \in ids :
                    \A k \in ids : J[k].manifest.created_at <= J[i].manifest.created_at
         IN  <<J[newest].manifest>> \o SortedByCreation(J, ids \ {newest})

\* list_jobs without reverse=True: oldest first.
RECURSIVE list_jobs_oldest_first(_)
list_jobs_oldest_first(J) ==
    LET ids == { k \in DOMAIN J : J[k] # None }
        newest ==
            CHOOSE i \in ids :
                \A k \in ids : J[k].manifest.created_at <= J[i].manifest.created_at
    IN  IF ids = {} THEN <<>>
        ELSE list_jobs_oldest_first([J EXCEPT ![newest] = None])
                \o <<J[newest].manifest>>

\* JobStorage.list_jobs: the manifests of the directories that hold one,
\* most recently created first.
list_jobs(J) == SortedByCreation(J, { k \in DOMAIN J : J[k] # None })

\* delete_job that empties a job's two areas and leaves the rest.
delete_job_areas_only(D, id) ==
    IF "manifest" \in DOMAIN D[id]
    THEN [D EXCEPT ![id].input = EmptyMap, ![id].output = EmptyMap]
    ELSE [D EXCEPT ![id] = None]

\* delete_job that removes every directory of the base directory.
delete_job_clears_base(D, id) == [k \in DOMAIN D |-> None]

\* JobStorage.delete_job on a directory of the base directory: whether it
\* returns True (the directory existed; rmtree removes all of it).
delete_job_result(D, id) == D[id] # None

delete_job(D, id) == [D EXCEPT ![id] = None]

\* max(..., default=0.0) over a list of confidences
RECURSIVE MaxOf(_)
MaxOf(s) ==
    IF s = <<>> THEN 0
    ELSE LET m == MaxOf(Tail(s)) IN IF Head(s) >= m THEN Head(s) ELSE m

\* What the file system holds at a place under the base directory, the
\* place given by the names that lead to it (<<>> the base directory,
\* <<id>> a job directory, <<id, "input", "a">> a file of its input
\* area).
NodeKind(J, at) ==
    IF Len(at) = 0 THEN "dir"
    ELSE IF at[1] \notin DOMAIN J \/ J[at[1]] = None THEN "none"
    ELSE IF Len(at) = 1 THEN "dir"
    ELSE IF Len(at) = 2
    THEN IF at[2] \in {"input", "output"} THEN "dir"
         ELSE IF at[2] = "manifest.json" THEN "file"
         ELSE IF at[2] = "detections.json" /\ J[at[1]].detections # NoFile THEN "file"
         ELSE IF at[2] \in DOMAIN J[at[1]].zips THEN "file"
         ELSE "none"
    ELSE IF Len(at) = 3
    THEN IF at[2] = "input" /\ at[3] \in DOMAIN J[at[1]].input THEN "file"
         ELSE IF at[2] = "output" /\ at[3] \in DOMAIN J[at[1]].output THEN "file"
         ELSE "none"
    ELSE "none"

\* Path.exists() of a path that starts at a place and goes on by the
\* given components, ".." leading to the parent: whether it exists, and
\* the place it leads to.
RECURSIVE Walk(_, _, _)
Walk(J, at, components) ==
    IF NodeKind(J, at) = "none" THEN [exists |-> FALSE, at |-> at]
    ELSE IF components = <<>> THEN [exists |-> TRUE, at |-> at]
    ELSE IF NodeKind(J, at) # "dir" THEN [exists |-> FALSE, at |-> at]
    ELSE IF Head(components) = ".."
    THEN Walk(J, IF at = <<>> THEN at ELSE SubSeq(at, 1, Len(at) - 1), Tail(components))
    ELSE Walk(J, Append(at, Head(components)), Tail(components))

\* JobStorage.get_input_image_path and get_output_image_path (area is
\* "input" or "output"), the file name given by its components between
\* the "/": whether a path is returned, the path job_dir / area /
\* filename as it is written, and the place it leads to.
get_image_path(J, id, area, filename) ==
    LET found == Walk(J, <<id, area>>, filename)
    IN  [ result |-> found.exists,
          path |-> <<id, area>> \o filename,
          leads_to |-> found.at ]

\* detection_map of create_output_zip: the entry of the last record that
\* carries the file name (a later record replaces an earlier one).
DetectionMap(detections) ==
    LET names == { detections[i].filename : i \in DOMAIN detections } \ {""}
        lastOf(n) ==
            CHOOSE i \in DOMAIN detections :
                /\ detections[i].filename = n
                /\ \A k \in DOMAIN detections :
                        detections[k].filename = n => k <= i
    IN  [ n \in names |->
            LET dets == detections[lastOf(n)].detections
            IN  [ max_confidence |->
                    MaxOf([k \in DOMAIN dets |-> dets[k].confidence]),
                  has_detections |-> Len(dets) > 0 ] ]

\* Path.suffix of a file name.  A name of the model is a stem and stands
\* for an image file (a for a.png) unless it is listed here.
suffix(filename) == IF filename \in {"t.txt"} THEN ".txt" ELSE ".png"

\* image_files of create_output_zip without the test of the suffix.
ImageFilesAny(source) == DOMAIN source

\* image_files of create_output_zip
ImageFiles(source) ==
    { f \in DOMAIN source :
        suffix(f) \in {".jpg", ".jpeg", ".png", ".tiff", ".tif", ".webp"} }

\* filtered_files of create_output_zip
FilteredFiles(dir, use_original, min_confidence, only_with_detections) ==
    LET source == IF use_original THEN dir.input ELSE dir.output
        detections ==
            IF dir.detections = NoFile THEN <<>> ELSE json_load(dir.detections[1])
        detection_map == DetectionMap(detections)
        max_conf(f) ==
            IF f \in DOMAIN detection_map
            THEN detection_map[f].max_confidence ELSE 0
        has_detections(f) ==
            IF f \in DOMAIN detection_map
            THEN detection_map[f].has_detections ELSE FALSE
    IN  { f \in ImageFiles(source) :
            /\ ~(only_with_detections /\ ~has_detections(f))
            /\ max_conf(f) >= min_confidence }

\* f"{min_confidence:.2f}" of a number of thousandths
Format2f(c) ==
    LET h == (c + 5) \div 10
    IN  ToString(h \div 100) \o "." \o ToString((h \div 10) % 10) \o ToString(h % 10)

\* The archive's file name in create_output_zip.
ZipName(use_original, min_confidence, only_with_detections) ==
    "results_"
        \o (IF use_original THEN "original" ELSE "processed")
        \o (IF only_with_detections THEN "_with_detections" ELSE "")
        \o (IF min_confidence > 0 THEN "_conf" \o Format2f(min_confidence) ELSE "")
        \o ".zip"

\* create_output_zip that goes on to write the archive when no file
\* passed the filters.
create_output_zip_found_any(J, id, use_original, min_confidence, only_with_detections) ==
    J[id] # None

\* JobStorage.create_output_zip: whether it returns a path, and the job
\* directories afterwards (the archive maps to the names it holds).
create_output_zip_found(J, id, use_original, min_confidence, only_with_detections) ==
    /\ J[id] # None
    /\ FilteredFiles(J[id], use_original, min_confidence, only_with_detections) # {}

\* create_output_zip that removes detections.json once the archive is
\* written.
create_output_zip_consumes(J, id, use_original, min_confidence, only_with_detections) ==
    IF ~create_output_zip_found(J, id, use_original, min_confidence, only_with_detections)
    THEN J
    ELSE [J EXCEPT ![id].zips =
                       Put(@, ZipName(use_original, min_confidence, only_with_detections),
                           FilteredFiles(J[id], use_original, min_confidence,
                                         only_with_detections)),
                   ![id].detections = NoFile]

create_output_zip(J, id, use_original, min_confidence, only_with_detections) ==
    IF ~create_output_zip_found(J, id, use_original, min_confidence, only_with_detections)
    THEN J
    ELSE [J EXCEPT ![id].zips =
            Put(@, ZipName(use_original, min_confidence, only_with_detections),
                FilteredFiles(J[id], use_original, min_confidence,
                              only_with_detections))]

\* ------------------------------------------------------------------ processor.py

\* The placeholder name, as its characters.
unnamed_file == <<"u", "n", "n", "a", "m", "e", "d", "_", "f", "i", "l", "e">>

\* os.path.basename: what follows the last "/".
RECURSIVE basename(_)
basename(filename) ==
    IF filename = <<>> THEN <<>>
    ELSE IF filename[Len(filename)] = "/" THEN <<>>
    ELSE Append(basename(SubSeq(filename, 1, Len(filename) - 1)),
                filename[Len(filename)])

\* The characters re.sub replaces among those of the model: < > : " | ? *
\* and the control characters (a tab written "\t").
Hostile == {"<", ">", ":", "\"", "|", "?", "*", "\t"}

\* str.strip('. ')
RECURSIVE strip(_)
strip(filename) ==
    IF filename = <<>> THEN <<>>
    ELSE IF filename[1] \in {".", " "} THEN strip(Tail(filename))
    ELSE IF filename[Len(filename)] \in {".", " "}
         THEN strip(SubSeq(filename, 1, Len(filename) - 1))
    ELSE filename

\* sanitize_filename that leaves the directories in the name.
sanitize_filename_keeps_path(filename) ==
    IF filename = <<>> THEN unnamed_file
    ELSE IF filename \in {<<".">>, <<".", ".">>} THEN unnamed_file
    ELSE LET replaced ==
                 [i \in DOMAIN filename |->
                    IF filename[i] \in Hostile THEN "_" ELSE filename[i]]
         IN  IF strip(replaced) = <<>> THEN unnamed_file ELSE strip(replaced)

\* ImageProcessor.sanitize_filename
sanitize_filename(filename) ==
    IF filename = <<>> THEN unnamed_file
    ELSE LET base == basename(filename)
         IN  IF base = <<>> \/ base \in {<<".">>, <<".", ".">>} THEN unnamed_file
             ELSE LET replaced ==
                          [i \in DOMAIN base |->
                             IF base[i] \in Hostile THEN "_" ELSE base[i]]
                  IN  IF strip(replaced) = <<>> THEN unnamed_file
                      ELSE strip(replaced)

\* ImageProcessor.validate_image_format
validate_image_format(ext) ==
    ext \in {".tiff", ".tif", ".png", ".jpg", ".jpeg", ".webp"}

\* ImageProcessor.is_zip_file
is_zip_file(ext) == ext \in {".zip"}

\* processor.py:183-188: the first of name, name_1, name_2, ... that is
\* no file of the directory.
RECURSIVE FreePath(_, _, _)
FreePath(dir, stem, counter) ==
    LET path == IF counter = 0 THEN stem ELSE Suffixed(stem, counter)
    IN  IF path \in DOMAIN dir THEN FreePath(dir, stem, counter + 1) ELSE path

\* zip_ref.read(member): the bytes of the member of that name, which is
\* the last one of the archive that carries it.
zip_read(members, member) ==
    LET named == { i \in DOMAIN members :
                     /\ members[i].dir = member.dir
                     /\ members[i].stem = member.stem
                     /\ members[i].ext = member.ext }
    IN  members[CHOOSE i \in named : \A k \in named : k <= i].data

\* The loop of extract_zip_archive over the names of the archive: a name
\* that is no image by its extension is skipped, so is one whose bytes
\* are empty; bytes that cv2 cannot read are written and removed again,
\* the others are kept under a name that is free.
RECURSIVE ExtractMembers(_, _, _, _)
ExtractMembers(zip_ref, members, dir, extracted_files) ==
    IF members = <<>>
    THEN [dir |-> dir, extracted_files |-> extracted_files]
    ELSE LET member == Head(members)
             file_data == zip_read(zip_ref, member)
             extract_path == FreePath(dir, member.stem, 0)
         IN  IF ~validate_image_format(member.ext) \/ file_data = Empty
             THEN ExtractMembers(zip_ref, Tail(members), dir, extracted_files)
             ELSE IF ~file_data.ok
             THEN ExtractMembers(zip_ref, Tail(members),
                                 Remove(Put(dir, extract_path, file_data), extract_path),
                                 extracted_files)
             ELSE ExtractMembers(zip_ref, Tail(members),
                                 Put(dir, extract_path, file_data),
                                 Append(extracted_files, extract_path))

\* ImageProcessor.extract_zip_archive into a directory (made if it is
\* missing): the directory afterwards, the paths extracted, and whether
\* it raises ValueError, because the bytes are no archive or because
\* nothing was extracted.
extract_zip_archive(zip_data, extract_to) ==
    LET made == IF extract_to = None THEN EmptyMap ELSE extract_to
        done == ExtractMembers(zip_data.members, zip_data.members, made, <<>>)
    IN  IF ~zip_data.ok
        THEN [dir |-> made, extracted_files |-> <<>>, raises |-> TRUE]
        ELSE [ dir |-> done.dir,
               extracted_files |-> done.extracted_files,
               raises |-> done.extracted_files = <<>> ]

\* The bounding box the detector reports for a person.
DetectorBox == <<10, 20, 100, 200>>

\* process_image that keeps every detection the detector reports.
process_image_unfiltered(data, confidence) ==
    LET kept == data.confs
        valid == \A k \in DOMAIN kept : kept[k] >= 0 /\ kept[k] <= 1000
    IN  IF data.ok /\ valid
        THEN [ detections |->
                 [k \in DOMAIN kept |->
                    [bbox |-> DetectorBox, confidence |-> kept[k],
                     class_name |-> "person"]],
               success |-> TRUE,
               error |-> <<>> ]
        ELSE [ detections |-> <<>>,
               success |-> FALSE,
               error |-> << IF data.ok THEN "validation error" ELSE "unreadable image" >> ]

\* process_image that reports a failure without its message.
process_image_silent(data, confidence) ==
    LET kept == SelectSeq(data.confs, LAMBDA c : ~(c < confidence))
    IN  IF data.ok
        THEN [ detections |->
                 [k \in DOMAIN kept |->
                    [bbox |-> DetectorBox, confidence |-> kept[k],
                     class_name |-> "person"]],
               success |-> TRUE,
               error |-> <<>> ]
        ELSE [ detections |-> <<>>, success |-> FALSE, error |-> <<>> ]

\* ImageProcessor.process_image on a file that exists: the ImageResult
\* (its filename is set by the caller).  A file cv2 cannot read, or a
\* confidence the Detection model rejects, ends in the except branch.
process_image(data, confidence) ==
    LET kept == SelectSeq(data.confs, LAMBDA c : ~(c < confidence))
        valid == \A k \in DOMAIN kept : kept[k] >= 0 /\ kept[k] <= 1000
    IN  IF data.ok /\ valid
        THEN [ detections |->
                 [k \in DOMAIN kept |->
                    [bbox |-> DetectorBox, confidence |-> kept[k],
                     class_name |-> "person"]],
               success |-> TRUE,
               error |-> <<>> ]
        ELSE [ detections |-> <<>>,
               success |-> FALSE,
               error |-> << IF data.ok THEN "validation error" ELSE "unreadable image" >> ]

\* ------------------------------------------------------------------ main.py: the confidence threshold

\* DEFAULT_CONFIDENCE_THRESHOLD unset: float("0.66"), in thousandths.
DEFAULT_CONFIDENCE == 660

\* main.py:116-125: the default when the field is not sent, else float()
\* of its text.
confidence_value(confidence_threshold) ==
    IF confidence_threshold = <<>>
    THEN [kind |-> "finite", value |-> DEFAULT_CONFIDENCE]
    ELSE ParseFloat(confidence_threshold[1])

\* A range check that leaves the two end points out.
validate_confidence_strict(confidence) ==
    confidence.kind = "finite" /\ 0 < confidence.value /\ confidence.value < 1000

\* validate_confidence: TRUE when it returns, FALSE when it raises the
\* 400 ("not 0.0 <= confidence <= 1.0"; every comparison with nan is false).
validate_confidence(confidence) ==
    confidence.kind = "finite" /\ 0 <= confidence.value /\ confidence.value <= 1000

\* ------------------------------------------------------------------ state

IdleUpload ==
    [ pc |-> "idle", name |-> <<>>, confidence_threshold |-> <<>>, conf |-> 0,
      paths |-> <<>>, detail |-> "" ]

NoTask ==
    [ pc |-> "none", i |-> 0, results |-> <<>>, processed_count |-> 0,
      detections_count |-> 0, used_filenames |-> EmptyMap ]

JobDir(u) == [kind |-> "job", n |-> u]
TempDir(u) == [kind |-> "temp", n |-> u]
Dirs == { JobDir(u) : u \in JobIds } \cup { TempDir(u) : u \in JobIds }

\* The answer to the last storage call; for a delete_job that returned
\* True, also what the directory held.
NoCall == [op |-> "none", id |-> [kind |-> "none", n |-> 0], result |-> FALSE]

Deleted(d, dir) == [op |-> "delete_job", id |-> d, result |-> dir # None, removed |-> dir]

\* The service with an empty storage directory, before a run of the
\* given quota.
Start(q) ==
    /\ quota = q
    /\ jobs = [u \in JobIds |-> None]
    /\ temp = [u \in JobIds |-> None]
    /\ up = [u \in JobIds |-> IdleUpload]
    /\ task = [u \in JobIds |-> NoTask]
    /\ running = 0
    /\ now = 0
    /\ nfiles = 0
    /\ nreqs = 0
    /\ last = NoCall

\* One upload request of up to MaxFiles files, with MaxRequests further
\* requests before, during or after it.
Init == Start([uploads |-> 1, files |-> MaxFiles, requests |-> MaxRequests, model_loaded |-> TRUE])

\* ------------------------------------------------------------------ main.py: upload_images

\* upload_images without the check that a model is loaded.
UploadBeginWithoutModel(u, name, confidence_threshold) ==
    /\ running = 0
    /\ up[u].pc = "idle"
    /\ \A v \in JobIds : v < u => up[v].pc # "idle"
    /\ u <= quota.uploads
    /\ nfiles < quota.files
    /\ LET confidence == confidence_value(confidence_threshold)
           request == [IdleUpload EXCEPT
                          !.name = name,
                          !.confidence_threshold = confidence_threshold]
       IN  IF confidence.kind = "error"
           THEN /\ up' = [up EXCEPT ![u] =
                            [request EXCEPT !.pc = "rejected",
                                            !.detail = "not a number"]]
                /\ temp' = temp
           ELSE IF ~validate_confidence(confidence)
           THEN /\ up' = [up EXCEPT ![u] =
                            [request EXCEPT !.pc = "rejected",
                                            !.detail = "out of range"]]
                /\ temp' = temp
           ELSE /\ up' = [up EXCEPT ![u] =
                            [request EXCEPT !.pc = "reading",
                                            !.conf = confidence.value]]
                /\ temp' = [temp EXCEPT ![u] = EmptyMap]
    /\ last' = NoCall
    /\ UNCHANGED <<jobs, task, running, now, nfiles, nreqs, quota>>

\* upload_images up to its first await: the request is rejected (503)
\* while no model is loaded; else the confidence threshold is
\* parsed and checked, and the request rejected if it fails; then the
\* staging directory temp_upload_<hex> is made.
UploadBegin(u, name, confidence_threshold) ==
    /\ running = 0
    /\ up[u].pc = "idle"
    /\ \A v \in JobIds : v < u => up[v].pc # "idle"
    /\ u <= quota.uploads
    /\ nfiles < quota.files
    /\ LET confidence == confidence_value(confidence_threshold)
           request == [IdleUpload EXCEPT
                          !.name = name,
                          !.confidence_threshold = confidence_threshold]
       IN  IF ~quota.model_loaded
           THEN /\ up' = [up EXCEPT ![u] =
                            [request EXCEPT !.pc = "rejected",
                                            !.detail = "detector not initialized"]]
                /\ temp' = temp
           ELSE IF confidence.kind = "error"
           THEN /\ up' = [up EXCEPT ![u] =
                            [request EXCEPT !.pc = "rejected",
                                            !.detail = "not a number"]]
                /\ temp' = temp
           ELSE IF ~validate_confidence(confidence)
           THEN /\ up' = [up EXCEPT ![u] =
                            [request EXCEPT !.pc = "rejected",
                                            !.detail = "out of range"]]
                /\ temp' = temp
           ELSE /\ up' = [up EXCEPT ![u] =
                            [request EXCEPT !.pc = "reading",
                                            !.conf = confidence.value]]
                /\ temp' = [temp EXCEPT ![u] = EmptyMap]
    /\ last' = NoCall
    /\ UNCHANGED <<jobs, task, running, now, nfiles, nreqs, quota>>

\* A rejection that leaves the staging directory behind.
remove_staging_skipped(T, u) == T

\* main.py:188-192: on HTTPException the staging directory is removed if
\* it exists.
remove_staging(T, u) == [T EXCEPT ![u] = None]

\* upload_images from one "await file.read()" to the next, or to its
\* return when the file is the last of the request: an archive is
\* extracted into the staging directory, another file is staged if its
\* extension is an image's (either way the directory is made again if it
\* is gone); after the last file the request is rejected and the
\* staging directory removed if nothing was staged, and otherwise the job
\* is created and its background task scheduled.
UploadFile(u, f, more) ==
    /\ running = 0
    /\ up[u].pc = "reading"
    /\ nfiles < quota.files
    /\ more => nfiles + 1 < quota.files
    /\ nfiles' = nfiles + 1
    /\ last' = NoCall
    /\ LET valid == ~is_zip_file(f.ext) /\ validate_image_format(f.ext)
           extracted ==
               IF is_zip_file(f.ext)
               THEN extract_zip_archive(f.data, temp[u])
               ELSE [dir |-> temp[u], extracted_files |-> <<>>, raises |-> FALSE]
           staged ==
               IF valid
               THEN Put(IF temp[u] = None THEN EmptyMap ELSE temp[u], f.stem, f.data)
               ELSE extracted.dir
           all_image_files ==
               IF valid THEN Append(up[u].paths, f.stem)
               ELSE up[u].paths \o extracted.extracted_files
       IN  IF more
           THEN /\ temp' = [temp EXCEPT ![u] = staged]
                /\ up' = [up EXCEPT ![u].paths = all_image_files]
                /\ UNCHANGED <<jobs, task, now>>
           ELSE IF all_image_files = <<>>
           THEN /\ temp' = remove_staging([temp EXCEPT ![u] = staged], u)
                /\ up' = [up EXCEPT ![u].pc = "rejected",
                                     ![u].detail = "no valid images"]
                /\ UNCHANGED <<jobs, task, now>>
           ELSE /\ temp' = [temp EXCEPT ![u] = staged]
                /\ jobs' = create_job(jobs, u, up[u].name, up[u].conf,
                                      Len(all_image_files), now)
                /\ now' = now + 1
                /\ up' = [up EXCEPT ![u].pc = "accepted", ![u].paths = all_image_files]
                /\ task' = [task EXCEPT ![u].pc = "scheduled"]
    /\ UNCHANGED <<running, nreqs, quota>>

\* ------------------------------------------------------------------ main.py: process_images_from_paths_task

\* A task that does not announce "processing" when it is entered.
TaskStartSkipsStatus(u) ==
    /\ running = 0
    /\ task[u].pc = "scheduled"
    /\ running' = u
    /\ task' = [task EXCEPT ![u] = [NoTask EXCEPT !.pc = "loop", !.i = 1]]
    /\ last' = NoCall
    /\ UNCHANGED <<jobs, temp, up, now, nfiles, nreqs, quota>>

\* The task is entered: update_status(job_id, "processing"), locals set.
TaskStart(u) ==
    /\ running = 0
    /\ task[u].pc = "scheduled"
    /\ running' = u
    /\ jobs' = update_status(jobs, u, "processing", <<>>, <<>>, now)
    /\ task' = [task EXCEPT ![u] = [NoTask EXCEPT !.pc = "loop", !.i = 1]]
    /\ last' = NoCall
    /\ UNCHANGED <<temp, up, now, nfiles, nreqs, quota>>

\* The name a file gets in the job's areas (main.py:222-228 and again
\* :263-269): the base name the first time it is seen, afterwards the
\* base name with a running number; used_filenames is updated either way.
dedupe(used_filenames, base_filename) ==
    LET seen == base_filename \in DOMAIN used_filenames
        count == IF seen THEN used_filenames[base_filename] + 1 ELSE 0
    IN  [ used_filenames |-> Put(used_filenames, base_filename, count),
          filename |-> IF seen THEN Suffixed(base_filename, count) ELSE base_filename ]

\* The count of images processed without error instead.
count_successes(result, detections_count) ==
    IF result.success THEN detections_count + 1 ELSE detections_count

\* main.py:248-249: one more image with detections, or not.
count_detections(result, detections_count) ==
    IF Len(result.detections) > 0 THEN detections_count + 1 ELSE detections_count

\* main.py:250-252 after process_image's copy (processor.py:53): what
\* the output area holds once the image is handled.
output_after(output, filename, data, result) ==
    LET copied == IF result.success THEN Put(output, filename, data) ELSE output
    IN  IF Len(result.detections) > 0 THEN copied ELSE Remove(copied, filename)

\* An except branch that skips the image without recording it.
except_branch_drops(t, base_filename) == t

\* The except branch of the loop (main.py:261-278): the task's locals
\* after it has recorded the image as failed.
except_branch(t, base_filename) ==
    LET d == dedupe(t.used_filenames, base_filename)
        error_result ==
            [ model |-> "ImageResult",
              filename |-> d.filename,
              detections |-> <<>>,
              success |-> FALSE,
              error |-> <<"no such file">> ]
    IN  [t EXCEPT
            !.used_filenames = d.used_filenames,
            !.results = Append(@, error_result),
            !.processed_count = @ + 1]

\* One iteration of "for image_path in image_paths": the try body, or
\* the except branch when the copy into the input area raises (the staged
\* file or the input area is gone).
TaskImage(u) ==
    /\ running = u
    /\ task[u].pc = "loop"
    /\ task[u].i <= Len(up[u].paths)
    /\ LET t == task[u]
           base_filename == up[u].paths[t.i]
           d == dedupe(t.used_filenames, base_filename)
           filename == d.filename
           copied ==
               /\ temp[u] # None
               /\ base_filename \in DOMAIN temp[u]
               /\ jobs[u] # None
       IN  IF copied
           THEN LET data == temp[u][base_filename]
                    result == process_image(data, up[u].conf)
                    record ==
                        [ model |-> "ImageResult",
                          filename |-> filename,
                          detections |-> result.detections,
                          success |-> result.success,
                          error |-> result.error ]
                    processed_count == t.processed_count + 1
                    detections_count == count_detections(result, t.detections_count)
                    written ==
                        [jobs EXCEPT
                            ![u].input = Put(@, filename, data),
                            ![u].output = output_after(@, filename, data, result)]
                IN  /\ jobs' = update_status(written, u, "processing",
                                             <<processed_count>>,
                                             <<detections_count>>, now)
                    /\ task' = [task EXCEPT
                                  ![u].i = @ + 1,
                                  ![u].used_filenames = d.used_filenames,
                                  ![u].results = Append(@, record),
                                  ![u].processed_count = processed_count,
                                  ![u].detections_count = detections_count]
           ELSE /\ task' = [task EXCEPT
                              ![u] = [except_branch(
                                         [t EXCEPT !.used_filenames = d.used_filenames],
                                         base_filename)
                                      EXCEPT !.i = @ + 1]]
                /\ UNCHANGED jobs
    /\ last' = NoCall
    /\ UNCHANGED <<temp, up, running, now, nfiles, nreqs, quota>>

\* A task whose outer handler only logs.
TaskFinishOnlyLogs(u, write_fails) ==
    /\ running = u
    /\ task[u].pc = "loop"
    /\ task[u].i > Len(up[u].paths)
    /\ IF save_detections_raises(jobs, u) \/ write_fails
       THEN jobs' = jobs
       ELSE jobs' = update_status(save_detections(jobs, u, task[u].results), u,
                                  "completed", <<task[u].processed_count>>,
                                  <<task[u].detections_count>>, now)
    /\ now' = now + 1
    /\ task' = [task EXCEPT ![u].pc = "finally"]
    /\ last' = NoCall
    /\ UNCHANGED <<temp, up, running, nfiles, nreqs, quota>>

\* After the loop: save_detections and update_status "completed"; when
\* save_detections raises (the job directory is gone, or the write fails)
\* the outer handler calls update_status "failed".
TaskFinish(u, write_fails) ==
    /\ running = u
    /\ task[u].pc = "loop"
    /\ task[u].i > Len(up[u].paths)
    /\ IF save_detections_raises(jobs, u) \/ write_fails
       THEN jobs' = update_status(jobs, u, "failed", <<>>, <<>>, now)
       ELSE jobs' = update_status(save_detections(jobs, u, task[u].results), u,
                                  "completed", <<task[u].processed_count>>,
                                  <<task[u].detections_count>>, now)
    /\ now' = now + 1
    /\ task' = [task EXCEPT ![u].pc = "finally"]
    /\ last' = NoCall
    /\ UNCHANGED <<temp, up, running, nfiles, nreqs, quota>>

\* A task that cleans up at the end of its try block only.
TaskExitAfterSuccess(u) ==
    /\ running = u
    /\ task[u].pc = "finally"
    /\ temp' = IF jobs[u] # None /\ jobs[u].manifest.status = "completed"
               THEN [temp EXCEPT ![u] = None]
               ELSE temp
    /\ task' = [task EXCEPT ![u] = [NoTask EXCEPT !.pc = "done"]]
    /\ running' = 0
    /\ last' = NoCall
    /\ UNCHANGED <<jobs, up, now, nfiles, nreqs, quota>>

\* finally: the staging directory is removed, and the task returns.
TaskExit(u) ==
    /\ running = u
    /\ task[u].pc = "finally"
    /\ temp' = [temp EXCEPT ![u] = None]
    /\ task' = [task EXCEPT ![u] = [NoTask EXCEPT !.pc = "done"]]
    /\ running' = 0
    /\ last' = NoCall
    /\ UNCHANGED <<jobs, up, now, nfiles, nreqs, quota>>

\* ------------------------------------------------------------------ main.py: the other handlers

\* PATCH /api/jobs/{job_id}/name
RenameJob(u, new_name) ==
    /\ running = 0
    /\ up[u].pc # "idle"
    /\ nreqs < quota.requests
    /\ nreqs' = nreqs + 1
    /\ jobs' = update_job_name(jobs, u, new_name)
    /\ last' = [op |-> "update_job_name", id |-> JobDir(u),
                result |-> update_job_name_result(jobs, u)]
    /\ UNCHANGED <<temp, up, task, running, now, nfiles, quota>>

\* GET /api/jobs/{job_id}: the manifest as it is on disk, or 404.  Like
\* every handler it runs when the event loop is free.
GetJobStatus(u) ==
    /\ running = 0
    /\ up[u].pc # "idle"
    /\ nreqs < quota.requests
    /\ nreqs' = nreqs + 1
    /\ last' = [op |-> "get_job_status", id |-> JobDir(u),
                result |-> get_status(jobs, u) # None,
                status |-> get_status(jobs, u)]
    /\ UNCHANGED <<jobs, temp, up, task, running, now, nfiles, quota>>

\* DELETE /api/jobs/{job_id}: the id names a directory of the base
\* directory, a job's or a staging directory's.
DeleteJob(d) ==
    /\ running = 0
    /\ up[d.n].pc # "idle"
    /\ nreqs < quota.requests
    /\ nreqs' = nreqs + 1
    /\ IF d.kind = "job"
       THEN /\ jobs' = IF delete_job_result(jobs, d.n) THEN delete_job(jobs, d.n) ELSE jobs
            /\ last' = [Deleted(d, jobs[d.n]) EXCEPT
                            !.result = delete_job_result(jobs, d.n)]
            /\ UNCHANGED temp
       ELSE /\ temp' = IF delete_job_result(temp, d.n) THEN delete_job(temp, d.n) ELSE temp
            /\ last' = [Deleted(d, temp[d.n]) EXCEPT
                            !.result = delete_job_result(temp, d.n)]
            /\ UNCHANGED jobs
    /\ UNCHANGED <<up, task, running, now, nfiles, quota>>

\* The filters a client asks a download with.
DownloadParams ==
    { [original |-> FALSE, min_confidence |-> 0, only_with_detections |-> FALSE],
      [original |-> TRUE, min_confidence |-> 0, only_with_detections |-> FALSE],
      [original |-> TRUE, min_confidence |-> 900, only_with_detections |-> TRUE] }

\* A download that asks for a stored job and not for its status.
DownloadResultsAnyStatus(u, q) ==
    /\ running = 0
    /\ up[u].pc # "idle"
    /\ nreqs < quota.requests
    /\ nreqs' = nreqs + 1
    /\ LET status == get_status(jobs, u)
           allowed ==
               /\ status # None
               /\ q.min_confidence >= 0 /\ q.min_confidence <= 1000
       IN  /\ jobs' = IF allowed
                      THEN create_output_zip(jobs, u, q.original, q.min_confidence,
                                             q.only_with_detections)
                      ELSE jobs
           /\ last' = [op |-> "download", id |-> JobDir(u),
                       result |-> allowed /\ create_output_zip_found(
                                      jobs, u, q.original, q.min_confidence,
                                      q.only_with_detections)]
    /\ UNCHANGED <<temp, up, task, running, now, nfiles, quota>>

\* GET /api/jobs/{job_id}/download
DownloadResults(u, q) ==
    /\ running = 0
    /\ up[u].pc # "idle"
    /\ nreqs < quota.requests
    /\ nreqs' = nreqs + 1
    /\ LET status == get_status(jobs, u)
           allowed ==
               /\ status # None
               /\ status.status = "completed"
               /\ q.min_confidence >= 0 /\ q.min_confidence <= 1000
       IN  /\ jobs' = IF allowed
                      THEN create_output_zip(jobs, u, q.original, q.min_confidence,
                                             q.only_with_detections)
                      ELSE jobs
           /\ last' = [op |-> "download", id |-> JobDir(u),
                       result |-> allowed /\ create_output_zip_found(
                                      jobs, u, q.original, q.min_confidence,
                                      q.only_with_detections)]
    /\ UNCHANGED <<temp, up, task, running, now, nfiles, quota>>

Next ==
    \/ \E u \in JobIds, name \in RequestedNames,
            confidence_threshold \in ConfidenceForms :
                UploadBegin(u, name, confidence_threshold)
    \/ \E u \in JobIds, f \in UploadFiles, more \in BOOLEAN : UploadFile(u, f, more)
    \/ \E u \in JobIds : TaskStart(u)
    \/ \E u \in JobIds : TaskImage(u)
    \/ \E u \in JobIds, write_fails \in BOOLEAN : TaskFinish(u, write_fails)
    \/ \E u \in JobIds : TaskExit(u)
    \/ \E u \in JobIds, new_name \in NewNames : RenameJob(u, new_name)
    \/ \E d \in Dirs : DeleteJob(d)
    \/ \E u \in JobIds, q \in DownloadParams : DownloadResults(u, q)
    \/ \E u \in JobIds : GetJobStatus(u)

Spec == Init /\ [][Next]_vars

\* Two upload requests whose handlers may interleave at their awaits,
\* each with the default threshold and with files out of an image and a
\* text file; their tasks, and one rename, delete or download before,
\* between or after them.
UploadsFiles == { f \in UploadFiles : f.stem \in {"a", "t"} }

InitUploads == Start([uploads |-> 2, files |-> MaxFiles, requests |-> 1, model_loaded |-> TRUE])

NextUploads ==
    \/ \E u \in JobIds, name \in RequestedNames : UploadBegin(u, name, <<>>)
    \/ \E u \in JobIds, f \in UploadsFiles, more \in BOOLEAN : UploadFile(u, f, more)
    \/ \E u \in JobIds : TaskStart(u)
    \/ \E u \in JobIds : TaskImage(u)
    \/ \E u \in JobIds, write_fails \in BOOLEAN : TaskFinish(u, write_fails)
    \/ \E u \in JobIds : TaskExit(u)
    \/ \E u \in JobIds, new_name \in NewNames : RenameJob(u, new_name)
    \/ \E d \in Dirs : DeleteJob(d)
    \/ \E u \in JobIds, q \in DownloadParams : DownloadResults(u, q)

SpecUploads == InitUploads /\ [][NextUploads]_vars

\* GET /health
HealthCheck ==
    /\ running = 0
    /\ nreqs < quota.requests
    /\ nreqs' = nreqs + 1
    /\ LET model_loaded == quota.model_loaded
       IN  last' = [op |-> "health_check", id |-> NoCall.id, result |-> TRUE,
                    status |-> IF model_loaded THEN "healthy" ELSE "degraded",
                    model_loaded |-> model_loaded]
    /\ UNCHANGED <<jobs, temp, up, task, running, now, nfiles, quota>>

\* GET /api/jobs
ListJobs ==
    /\ running = 0
    /\ nreqs < quota.requests
    /\ nreqs' = nreqs + 1
    /\ last' = [op |-> "list_jobs", id |-> NoCall.id, result |-> TRUE,
                jobs |-> list_jobs(jobs)]
    /\ UNCHANGED <<jobs, temp, up, task, running, now, nfiles, quota>>

\* The startup event has either loaded the model or left detector and
\* processor at None (main.py:44-59); then one upload, its task, and
\* health, list and status requests.
InitStartup ==
    \E loaded \in BOOLEAN :
        Start([uploads |-> 1, files |-> MaxFiles, requests |-> MaxRequests,
               model_loaded |-> loaded])

StartupForms == { <<>>, << <<"a">> >> }

NextStartup ==
    \/ \E u \in JobIds, name \in RequestedNames, confidence_threshold \in StartupForms :
            UploadBegin(u, name, confidence_threshold)
    \/ \E u \in JobIds, f \in UploadsFiles, more \in BOOLEAN : UploadFile(u, f, more)
    \/ \E u \in JobIds : TaskStart(u)
    \/ \E u \in JobIds : TaskImage(u)
    \/ \E u \in JobIds, write_fails \in BOOLEAN : TaskFinish(u, write_fails)
    \/ \E u \in JobIds : TaskExit(u)
    \/ \E u \in JobIds : GetJobStatus(u)
    \/ HealthCheck
    \/ ListJobs

SpecStartup == InitStartup /\ [][NextStartup]_vars

\* ------------------------------------------------------------------ JobStorage called directly

\* The names and new names a direct caller passes.
StoreNames == { <<>>, <<"">>, <<"n">> }
StoreNewNames == { "", "n" }

\* What create_job found when it was called: whether the directory of
\* the id existed, and the names in the manifests of the store.
Found(J, id) ==
    [ existed |-> J[id] # None,
      names |-> { J[j].manifest.name : j \in { k \in DOMAIN J : J[k] # None } } ]

\* storage.create_job(job_id, name, confidence_threshold, total_images).
\* With job_id left out (given = FALSE) the id is uuid4's, never drawn
\* before; a caller that passes job_id passes any id.
StoreCreateJob(id, given, name, conf, total) ==
    /\ IF given
       THEN /\ nreqs < quota.requests
            /\ nreqs' = nreqs + 1
       ELSE /\ up[id].pc = "idle"
            /\ \A v \in JobIds : v < id => up[v].pc # "idle"
            /\ nreqs' = nreqs
    /\ up' = [up EXCEPT ![id].pc = "called"]
    /\ jobs' = create_job(jobs, id, name, conf, total, now)
    /\ now' = now + 1
    /\ last' = [ op |-> "create_job", id |-> JobDir(id), result |-> TRUE,
                 job_id |-> IF given THEN <<id>> ELSE <<>>,
                 name |-> name, confidence_threshold |-> conf,
                 total_images |-> total, found |-> Found(jobs, id) ]
    /\ UNCHANGED <<temp, task, running, nfiles, quota>>

\* storage.update_status(id, status, processed_images, images_with_detections)
StoreUpdateStatus(id, status, processed_images, images_with_detections) ==
    /\ nreqs < quota.requests
    /\ nreqs' = nreqs + 1
    /\ jobs' = update_status(jobs, id, status, processed_images,
                             images_with_detections, now)
    /\ last' = [op |-> "update_status", id |-> JobDir(id), result |-> FALSE,
                status |-> status]
    /\ UNCHANGED <<temp, up, task, running, now, nfiles, quota>>

\* storage.update_job_name(id, new_name)
StoreUpdateJobName(id, new_name) ==
    /\ nreqs < quota.requests
    /\ nreqs' = nreqs + 1
    /\ jobs' = update_job_name(jobs, id, new_name)
    /\ last' = [op |-> "update_job_name", id |-> JobDir(id),
                result |-> update_job_name_result(jobs, id),
                new_name |-> new_name]
    /\ UNCHANGED <<temp, up, task, running, now, nfiles, quota>>

\* storage.delete_job(id)
StoreDeleteJob(id) ==
    /\ nreqs < quota.requests
    /\ nreqs' = nreqs + 1
    /\ jobs' = IF delete_job_result(jobs, id) THEN delete_job(jobs, id) ELSE jobs
    /\ last' = [Deleted(JobDir(id), jobs[id]) EXCEPT
                    !.result = delete_job_result(jobs, id)]
    /\ UNCHANGED <<temp, up, task, running, now, nfiles, quota>>

\* The statuses and counters a direct caller passes to update_status.
StoreStatuses == { "processing", "completed" }
StoreCounters == { [processed_images |-> <<1>>, images_with_detections |-> <<1>>] }

NextStore ==
    \/ \E id \in JobIds, given \in BOOLEAN, name \in StoreNames,
            conf \in Thresholds, total \in {1} :
                StoreCreateJob(id, given, name, conf, total)
    \/ \E id \in JobIds, status \in StoreStatuses, counters \in StoreCounters :
            StoreUpdateStatus(id, status, counters.processed_images,
                              counters.images_with_detections)
    \/ \E id \in JobIds, new_name \in StoreNewNames : StoreUpdateJobName(id, new_name)
    \/ \E id \in JobIds : StoreDeleteJob(id)

\* No service request: create_job calls, and MaxRequests other calls
\* among them.
InitStore == Start([uploads |-> 0, files |-> 0, requests |-> MaxRequests, model_loaded |-> TRUE])

SpecStore == InitStore /\ [][NextStore]_vars

\* ------------------------------------------------------------------ direct calls on one job's files

\* The lists a caller passes to save_detections: ImageResult objects as
\* the task builds them, plain dicts as the tests pass them, a list in
\* which a file name comes twice (as the task writes for the paths a, a,
\* a_1), and the empty list.
Detected(c) == [bbox |-> DetectorBox, confidence |-> c, class_name |-> "person"]

ImageResult(filename, detections, success, error) ==
    [ model |-> "ImageResult", filename |-> filename, detections |-> detections,
      success |-> success, error |-> error ]

DetectionLists ==
    { << ImageResult("a", <<Detected(800)>>, TRUE, <<>>),
         ImageResult("b", <<>>, FALSE, <<"unreadable image">>) >>,
      << [ filename |-> "a",
           detections |-> << [bbox |-> <<0, 5, 64, 1024>>, confidence |-> 300,
                              class |-> "person"] >>,
           success |-> TRUE, error |-> <<>> ] >>,
      << ImageResult("a", <<Detected(800)>>, TRUE, <<>>),
         ImageResult("a_1", <<Detected(800)>>, TRUE, <<>>),
         ImageResult("a_1", <<>>, TRUE, <<>>) >>,
      <<>> }

\* storage.save_detections(id, detections); on an id without a directory
\* open() raises.
FilesSaveDetections(id, detections) ==
    /\ nreqs < quota.requests
    /\ nreqs' = nreqs + 1
    /\ jobs' = IF save_detections_raises(jobs, id) THEN jobs
               ELSE save_detections(jobs, id, detections)
    /\ last' = [ op |-> "save_detections", id |-> JobDir(id),
                 result |-> ~save_detections_raises(jobs, id),
                 detections |-> detections ]
    /\ UNCHANGED <<temp, up, task, running, now, nfiles, quota>>

\* storage.get_detections(id)
FilesGetDetections(id) ==
    /\ last' = [ op |-> "get_detections", id |-> JobDir(id),
                 result |-> get_detections(jobs, id) # NoFile,
                 records |-> get_detections(jobs, id) ]
    /\ UNCHANGED <<jobs, temp, up, task, running, now, nfiles, nreqs, quota>>

\* A new job under a generated id.
FilesCreateJob(id) == StoreCreateJob(id, FALSE, <<"n">>, 500, 1)

\* The file names a caller saves under: two images and a text file.
AreaNames == { "a", "a_1", "t.txt" }

\* storage.save_image(id, filename, image_data, is_input)
FilesSaveImage(id, filename, is_input) ==
    /\ nfiles < quota.files
    /\ nfiles' = nfiles + 1
    /\ jobs' = IF save_image_raises(jobs, id) THEN jobs
               ELSE save_image(jobs, id, filename, Person, is_input)
    /\ last' = [ op |-> "save_image", id |-> JobDir(id),
                 result |-> ~save_image_raises(jobs, id) ]
    /\ UNCHANGED <<temp, up, task, running, now, nreqs, quota>>

\* The filters a caller passes to create_output_zip (min_confidence in
\* thousandths).
ZipParams ==
    [ use_original : BOOLEAN, min_confidence : {0, 296, 304},
      only_with_detections : BOOLEAN ]

\* storage.create_output_zip(id, use_original, min_confidence,
\* only_with_detections): the answer is the name of the archive written,
\* or none.
FilesCreateOutputZip(id, q) ==
    /\ nreqs < quota.requests
    /\ nreqs' = nreqs + 1
    /\ jobs' = create_output_zip(jobs, id, q.use_original, q.min_confidence,
                                 q.only_with_detections)
    /\ LET found == create_output_zip_found(jobs, id, q.use_original,
                                            q.min_confidence, q.only_with_detections)
       IN  last' = [ op |-> "create_output_zip", id |-> JobDir(id),
                     result |-> found, params |-> q,
                     path |-> IF found
                              THEN << ZipName(q.use_original, q.min_confidence,
                                              q.only_with_detections) >>
                              ELSE <<>> ]
    /\ UNCHANGED <<temp, up, task, running, now, nfiles, quota>>

NextRecords ==
    \/ \E id \in JobIds : FilesCreateJob(id)
    \/ \E id \in JobIds, detections \in DetectionLists :
            FilesSaveDetections(id, detections)
    \/ \E id \in JobIds : FilesGetDetections(id)

\* No service request: MaxRequests + 1 writing calls on the jobs created.
InitRecords == Start([uploads |-> 0, files |-> 0, requests |-> MaxRequests + 1, model_loaded |-> TRUE])

SpecRecords == InitRecords /\ [][NextRecords]_vars

\* The file names asked for: a, t.txt, one that no area holds, the
\* empty name, ../manifest.json and ../output/a.
PathNames ==
    { <<"a">>, <<"t.txt">>, <<"missing">>, <<>>,
      <<"..", "manifest.json">>, <<"..", "output", "a">> }

\* storage.get_input_image_path(id, filename) or, with is_input false,
\* storage.get_output_image_path(id, filename).
FilesGetImagePath(id, filename, is_input) ==
    /\ LET area == IF is_input THEN "input" ELSE "output"
           answer == get_image_path(jobs, id, area, filename)
       IN  last' = [ op |-> "get_image_path", id |-> JobDir(id),
                     result |-> answer.result, area |-> area,
                     filename |-> filename, leads_to |-> answer.leads_to ]
    /\ UNCHANGED <<jobs, temp, up, task, running, now, nfiles, nreqs, quota>>

\* One job, MaxFiles files saved into its areas, and the paths of files
\* asked for.
NextPaths ==
    \/ FilesCreateJob(1)
    \/ \E filename \in AreaNames, is_input \in BOOLEAN :
            FilesSaveImage(1, filename, is_input)
    \/ \E id \in JobIds, filename \in PathNames, is_input \in BOOLEAN :
            FilesGetImagePath(id, filename, is_input)

InitPaths == Start([uploads |-> 0, files |-> MaxFiles, requests |-> 0, model_loaded |-> TRUE])

SpecPaths == InitPaths /\ [][NextPaths]_vars

\* One job, MaxFiles files saved into its areas and MaxRequests + 1
\* further calls that write its records or build an archive.
NextArchive ==
    \/ FilesCreateJob(1)
    \/ \E filename \in AreaNames, is_input \in BOOLEAN :
            FilesSaveImage(1, filename, is_input)
    \/ \E detections \in DetectionLists : FilesSaveDetections(1, detections)
    \/ \E q \in ZipParams : FilesCreateOutputZip(1, q)

InitArchive ==
    Start([uploads |-> 0, files |-> MaxFiles, requests |-> MaxRequests + 1, model_loaded |-> TRUE])

SpecArchive == InitArchive /\ [][NextArchive]_vars

\* ------------------------------------------------------------------ sanitize_filename on its own

\* processor.sanitize_filename(filename) on a given name, and on the name
\* an earlier call returned.
SanitizeName ==
    /\ last.op = "given"
    /\ last' = [ op |-> "sanitize_filename", id |-> last.id, result |-> TRUE,
                 filename |-> last.filename,
                 returned |-> sanitize_filename(last.filename) ]
    /\ UNCHANGED <<jobs, temp, up, task, running, now, nfiles, nreqs, quota>>

SanitizeAgain ==
    /\ last.op = "sanitize_filename"
    /\ last.filename # last.returned
    /\ last' = [ op |-> "sanitize_filename", id |-> last.id, result |-> TRUE,
                 filename |-> last.returned,
                 returned |-> sanitize_filename(last.returned) ]
    /\ UNCHANGED <<jobs, temp, up, task, running, now, nfiles, nreqs, quota>>

NextSanitize == SanitizeName \/ SanitizeAgain

InitSanitize ==
    /\ quota = [uploads |-> 0, files |-> 0, requests |-> 0, model_loaded |-> TRUE]
    /\ jobs = [u \in JobIds |-> None]
    /\ temp = [u \in JobIds |-> None]
    /\ up = [u \in JobIds |-> IdleUpload]
    /\ task = [u \in JobIds |-> NoTask]
    /\ running = 0
    /\ now = 0
    /\ nfiles = 0
    /\ nreqs = 0
    /\ \E filename \in GivenNames :
            last = [NoCall EXCEPT !.op = "given"] @@ [filename |-> filename]

SpecSanitize == InitSanitize /\ [][NextSanitize]_vars

\* ------------------------------------------------------------------ extract_zip_archive on its own

\* The members of the archives tried: images in the root and in a
\* directory, a name that comes a second time with bytes that are no
\* image, a text file and an empty file.
ArchiveMembers ==
    { [dir |-> "", stem |-> "a", ext |-> ".png", data |-> Person],
      [dir |-> "", stem |-> "a", ext |-> ".png", data |-> Corrupt],
      [dir |-> "d", stem |-> "a", ext |-> ".png", data |-> Faint],
      [dir |-> "", stem |-> "t", ext |-> ".txt", data |-> Person],
      [dir |-> "", stem |-> "b", ext |-> ".png", data |-> Empty] }

RECURSIVE MemberLists(_)
MemberLists(n) ==
    IF n = 0 THEN { <<>> }
    ELSE MemberLists(n - 1) \cup
         { Append(l, m) : l \in { x \in MemberLists(n - 1) : Len(x) = n - 1 },
                          m \in ArchiveMembers }

\* Archives of up to MaxFiles members, and bytes that are no archive.
Archives == { Zip(l) : l \in MemberLists(MaxFiles) } \cup { NotAZip }

\* processor.extract_zip_archive(zip_data, extract_to) into staging
\* directory 1.
ExtractArchive ==
    /\ last.op = "given archive"
    /\ LET done == extract_zip_archive(last.zip_data, temp[1])
       IN  /\ temp' = [temp EXCEPT ![1] = done.dir]
           /\ last' = [ op |-> "extract_zip_archive", id |-> TempDir(1),
                        result |-> ~done.raises,
                        zip_data |-> last.zip_data,
                        extract_to |-> temp[1],
                        extracted_files |-> done.extracted_files ]
    /\ UNCHANGED <<jobs, up, task, running, now, nfiles, nreqs, quota>>

NextExtract == ExtractArchive

\* An archive, and a staging directory that is missing, empty or holds
\* a.png already.
InitExtract ==
    /\ quota = [uploads |-> 0, files |-> 0, requests |-> 0, model_loaded |-> TRUE]
    /\ jobs = [u \in JobIds |-> None]
    /\ \E extract_to \in {None, EmptyMap, Put(EmptyMap, "a", Person)} :
            temp = [u \in JobIds |-> IF u = 1 THEN extract_to ELSE None]
    /\ up = [u \in JobIds |-> IdleUpload]
    /\ task = [u \in JobIds |-> NoTask]
    /\ running = 0
    /\ now = 0
    /\ nfiles = 0
    /\ nreqs = 0
    /\ \E zip_data \in Archives :
            last = [NoCall EXCEPT !.op = "given archive"] @@ [zip_data |-> zip_data]

SpecExtract == InitExtract /\ [][NextExtract]_vars

\* ------------------------------------------------------------------ claims

\* The jobs that exist: the ids with a directory (and so a manifest).
Live == { j \in JobIds : jobs[j] # None }

\* C1: under every sequence of create_job, update_job_name and delete_job
\* calls with arbitrary names, no two existing jobs have the same display
\* name in their manifests.  (Stated as claimed; the scan of
\* storage.py:29 and :145 skips a name that is the empty string, so two
\* jobs can both be named "".)
C1_NoTwoJobsShareAName ==
    \A i \in Live, j \in Live :
        i # j => jobs[i].manifest.name # jobs[j].manifest.name

\* The background task, once scheduled, runs to its end: Starlette awaits
\* it after the response is sent, and every call it makes returns or
\* raises.
FairSpec ==
    /\ Spec
    /\ \A u \in JobIds :
        /\ WF_vars(TaskStart(u))
        /\ WF_vars(TaskImage(u))
        /\ WF_vars(\E write_fails \in BOOLEAN : TaskFinish(u, write_fails))
        /\ WF_vars(TaskExit(u))

Status(j) == jobs[j].manifest.status

\* The records of the job's detections file (<<>> when there is none).
Records(j) ==
    IF get_detections(jobs, j) = NoFile THEN <<>> ELSE get_detections(jobs, j)[1]

WithDetections(recs) == { i \in DOMAIN recs : Len(recs[i].detections) > 0 }

\* C2: the status in a job's manifest changes only along queued ->
\* processing, processing -> completed, processing -> failed (processing
\* may be rewritten); from completed or failed it never changes.
C2_StatusTransitions ==
    [][ \A j \in JobIds :
            (jobs[j] # None /\ jobs'[j] # None) =>
                \/ jobs'[j].manifest.status = Status(j)
                \/ <<Status(j), jobs'[j].manifest.status>> \in
                        { <<"queued", "processing">>,
                          <<"processing", "completed">>,
                          <<"processing", "failed">> } ]_vars

\* A job whose task ended in the outer handler: processing -> failed.
C2_Witness == \E j \in Live : Status(j) = "failed" /\ task[j].pc = "done"

\* C3: in every state of every job's manifest,
\* images_with_detections <= processed_images <= total_images.
C3_CountersOrdered ==
    \A j \in Live :
        /\ jobs[j].manifest.images_with_detections <= jobs[j].manifest.processed_images
        /\ jobs[j].manifest.processed_images <= jobs[j].manifest.total_images

\* A job in mid-run whose three counters all differ.
C3_Witness ==
    \E j \in Live :
        /\ Status(j) = "processing"
        /\ 0 < jobs[j].manifest.images_with_detections
        /\ jobs[j].manifest.images_with_detections < jobs[j].manifest.processed_images
        /\ jobs[j].manifest.processed_images < jobs[j].manifest.total_images

\* C4: within a job's lifecycle processed_images and
\* images_with_detections never decrease from one state to the next.
C4_CountersMonotone ==
    [][ \A j \in JobIds :
            (jobs[j] # None /\ jobs'[j] # None) =>
                /\ jobs'[j].manifest.processed_images >= jobs[j].manifest.processed_images
                /\ jobs'[j].manifest.images_with_detections >=
                        jobs[j].manifest.images_with_detections ]_vars

\* A job that failed after both counters had grown.
C4_Witness ==
    \E j \in Live :
        /\ Status(j) = "failed"
        /\ jobs[j].manifest.processed_images >= 2
        /\ jobs[j].manifest.images_with_detections >= 1

\* C5: after delete_job(id) returned True, get_status(id) and
\* get_detections(id) are absent, list_jobs does not contain the job and
\* nothing of the directory remains: input and output images, manifest,
\* detections file, result archives.
C5_DeleteRemovesEverything ==
    (last.op = "delete_job" /\ last.result) =>
        IF last.id.kind = "job"
        THEN /\ get_status(jobs, last.id.n) = None
             /\ get_detections(jobs, last.id.n) = NoFile
             /\ \A i \in DOMAIN list_jobs(jobs) :
                    list_jobs(jobs)[i].job_id # last.id.n
             /\ jobs[last.id.n] = None
        ELSE temp[last.id.n] = None

\* delete_job has just returned True for a job that held images in both
\* areas, a detections file and a result archive.
C5_Witness ==
    /\ last.op = "delete_job" /\ last.result /\ last.id.kind = "job"
    /\ last.removed.zips # EmptyMap
    /\ last.removed.input # EmptyMap
    /\ last.removed.output # EmptyMap
    /\ last.removed.detections # NoFile

\* C6: every job created by an accepted upload and not deleted eventually
\* reaches status completed or failed (the task being scheduled and every
\* call returning).
C6_JobsTerminate ==
    \A j \in JobIds :
        [](jobs[j] # None =>
            <>(jobs[j] = None \/ Status(j) \in {"completed", "failed"}))

\* A job of an accepted upload that went through queued and processing
\* and has arrived in completed, its task having returned.
C6_Witness ==
    \E j \in Live :
        /\ up[j].pc = "accepted" /\ task[j].pc = "done"
        /\ Status(j) = "completed"
        /\ jobs[j].manifest.completed_at # <<>>
        /\ jobs[j].manifest.processed_images = jobs[j].manifest.total_images

\* The file names main.py can give to the image of a path.
NamesFor(base_filename, n) ==
    {base_filename} \cup { Suffixed(base_filename, k) : k \in 1..(2 * n) }

\* C7: a failure on one image never aborts the batch: when the task has
\* ended with status completed, the saved records are one per input path,
\* in input order, and processed_images = total_images.
C7_OneRecordPerImage ==
    \A j \in Live :
        Status(j) = "completed" =>
            /\ jobs[j].detections # NoFile
            /\ Len(Records(j)) = Len(up[j].paths)
            /\ \A i \in DOMAIN Records(j) :
                    Records(j)[i].filename \in NamesFor(up[j].paths[i], Len(up[j].paths))
            /\ jobs[j].manifest.processed_images = jobs[j].manifest.total_images

\* A completed job of three images of which two failed: one in
\* process_image, one in the loop's except branch.
C7_Witness ==
    \E j \in Live :
        /\ Status(j) = "completed"
        /\ Len(Records(j)) = 3
        /\ \E i \in DOMAIN Records(j) : Records(j)[i].error = <<"unreadable image">>
        /\ \E i \in DOMAIN Records(j) : Records(j)[i].error = <<"no such file">>

\* C8: for a job completed by the task, processed_images is the number of
\* saved records and images_with_detections the number of saved records
\* with at least one detection.
C8_CountersMatchRecords ==
    \A j \in Live :
        Status(j) = "completed" =>
            /\ jobs[j].manifest.processed_images = Len(Records(j))
            /\ jobs[j].manifest.images_with_detections =
                    Cardinality(WithDetections(Records(j)))

\* A completed job with a record with detections, a successful record
\* without any, and a failed record.
C8_Witness ==
    \E j \in Live :
        /\ Status(j) = "completed"
        /\ \E i \in DOMAIN Records(j) : Len(Records(j)[i].detections) > 0
        /\ \E i \in DOMAIN Records(j) :
                Records(j)[i].success /\ Len(Records(j)[i].detections) = 0
        /\ \E i \in DOMAIN Records(j) : ~Records(j)[i].success

\* C9: when a job is completed, its output area holds a file for exactly
\* the records with at least one detection, and its input area a copy of
\* every image that was copied in.  (Stated as claimed; two images of one
\* job can get the same file name, and the later one then removes the
\* earlier one's output file.)
C9_OutputHoldsDetectedOnly ==
    \A j \in Live :
        Status(j) = "completed" =>
            /\ \A i \in DOMAIN Records(j) :
                    (Records(j)[i].filename \in DOMAIN jobs[j].output)
                        <=> (Len(Records(j)[i].detections) > 0)
            /\ \A f \in DOMAIN jobs[j].output :
                    \E i \in DOMAIN Records(j) : Records(j)[i].filename = f
            /\ \A i \in DOMAIN Records(j) :
                    Records(j)[i].error # <<"no such file">> =>
                        Records(j)[i].filename \in DOMAIN jobs[j].input

\* C10: for every accepted upload the staging directory is eventually
\* removed when the background task exits, whether the task ended in
\* completed or failed or the job was deleted.
C10_StagingRemoved ==
    \A u \in JobIds :
        (up[u].pc = "accepted") ~> (task[u].pc = "done" /\ temp[u] = None)

\* The task has exited for a job that was deleted while it waited, and
\* the staging directory is gone.
C10_Witness ==
    \E u \in JobIds :
        /\ up[u].pc = "accepted" /\ task[u].pc = "done"
        /\ jobs[u] = None /\ temp[u] = None
        /\ last.op = "none"

\* C11: an upload whose confidence threshold does not parse as a number
\* or lies outside [0.0, 1.0] is rejected before anything is written: no
\* job, no background task and no staging directory exist for it; the
\* thresholds 0.0 and 1.0 themselves are not rejected for their value.
C11_BadConfidenceRejected ==
    \A u \in JobIds :
        up[u].pc \notin {"idle", "called"} =>
            LET confidence == confidence_value(up[u].confidence_threshold)
                in_range ==
                    /\ confidence.kind = "finite"
                    /\ confidence.value >= 0 /\ confidence.value <= 1000
            IN  /\ ~in_range =>
                    /\ up[u].pc = "rejected"
                    /\ up[u].detail \in {"not a number", "out of range"}
                    /\ jobs[u] = None /\ temp[u] = None
                    /\ task[u].pc = "none"
                /\ in_range => up[u].detail \notin {"not a number", "out of range"}

\* An upload sent with the threshold 1.001, just above the range, has
\* been rejected, and requests have been served since.
C11_Witness ==
    \E u \in JobIds :
        /\ up[u].confidence_threshold = << <<"1", ".", "0", "0", "1">> >>
        /\ up[u].pc = "rejected" /\ up[u].detail = "out of range"
        /\ nreqs > 0

\* C12: an upload in which no file survives format validation and archive
\* extraction is rejected as a whole and leaves the store as it was: the
\* rejecting step creates no job and schedules no task, and the staging
\* directory made for the upload is gone after it; an upload is accepted
\* only with at least one image staged.
C12_NoValidFileRejected ==
    [][ \A u \in JobIds :
            /\ (up[u].pc = "reading" /\ up'[u].pc = "rejected") =>
                    /\ up[u].paths = <<>> /\ up'[u].paths = <<>>
                    /\ jobs' = jobs /\ task' = task
                    /\ jobs'[u] = None /\ task'[u].pc = "none"
                    /\ temp'[u] = None
            /\ (up[u].pc = "reading" /\ up'[u].pc = "accepted") =>
                    /\ up'[u].paths # <<>>
                    /\ jobs'[u] # None /\ task'[u].pc = "scheduled" ]_vars

\* An upload of three files, none of them an image or an archive with an
\* image in it, has been rejected.
C12_Witness ==
    \E u \in JobIds :
        /\ up[u].pc = "rejected" /\ up[u].detail = "no valid images"
        /\ nfiles = 3
        /\ temp[u] = None /\ jobs[u] = None

\* C13: create_job returns an id different from every existing job's id
\* and leaves a manifest with status queued, both counters 0, completed_at
\* null and total_images equal to the argument, plus empty input and
\* output areas; it never replaces the manifest of an existing job.
\* (Stated as claimed; create_job takes the id from its job_id parameter
\* when the caller passes one, and then writes over the job of that id.)
C13_CreateJobFreshAndInitial ==
    last.op = "create_job" =>
        /\ ~last.found.existed
        /\ jobs[last.id.n] # None
        /\ jobs[last.id.n].manifest.status = "queued"
        /\ jobs[last.id.n].manifest.processed_images = 0
        /\ jobs[last.id.n].manifest.images_with_detections = 0
        /\ jobs[last.id.n].manifest.completed_at = <<>>
        /\ jobs[last.id.n].manifest.total_images = last.total_images
        /\ jobs[last.id.n].input = EmptyMap
        /\ jobs[last.id.n].output = EmptyMap

\* C14: create_job with requested name n stores n if no existing job is
\* named n, and otherwise n_k for the smallest k >= 1 such that no
\* existing job is named n_k.  (Stated as claimed; it fails for the empty
\* name, which the scan of existing names leaves out.)
C14_CreateJobStoresFreeName ==
    (last.op = "create_job" /\ last.name # <<>>) =>
        LET n == last.name[1]
            stored == jobs[last.id.n].manifest.name
        IN  IF n \notin last.found.names
            THEN stored = n
            ELSE \E k \in 1..(MaxJobs + 1) :
                    /\ stored = Suffixed(n, k)
                    /\ Suffixed(n, k) \notin last.found.names
                    /\ \A i \in 1..(k - 1) : Suffixed(n, i) \in last.found.names

\* C15: update_job_name on an existing job resolves the new name against
\* the names of the other jobs only: renamed to its own current name the
\* job keeps it, renamed to a name another job holds it gets that name
\* with a suffix that is free, and the other jobs are unchanged.  (Stated
\* as claimed; it fails for the empty name, which the scan leaves out.)
C15_RenameAgainstOthers ==
    [][ (last'.op = "update_job_name" /\ jobs[last'.id.n] # None) =>
            LET id == last'.id.n
                new_name == last'.new_name
                others == Live \ {id}
                taken == { jobs[j].manifest.name : j \in others }
                stored == jobs'[id].manifest.name
            IN  /\ \A j \in JobIds \ {id} : jobs'[j] = jobs[j]
                /\ (new_name = jobs[id].manifest.name /\ new_name \notin taken) =>
                        stored = new_name
                /\ new_name \in taken =>
                        /\ stored \notin taken
                        /\ \E k \in 1..(MaxJobs + 1) : stored = Suffixed(new_name, k) ]_vars

\* C16: in every state of a job driven by the background task,
\* completed_at is set if and only if the status is completed or failed,
\* and a step that leaves the job in a status that is not terminal leaves
\* completed_at as it was.
C16_CompletedAtIffTerminal ==
    [][ \A j \in JobIds :
            jobs'[j] # None =>
                /\ (jobs'[j].manifest.completed_at # <<>>)
                        <=> (jobs'[j].manifest.status \in {"completed", "failed"})
                /\ (jobs[j] # None
                        /\ jobs'[j].manifest.status \notin {"completed", "failed"}) =>
                            jobs'[j].manifest.completed_at = jobs[j].manifest.completed_at
      ]_vars

\* A job that went through update_status calls with status processing,
\* then completed: completed_at is set, later than created_at.
C16_Witness ==
    \E j \in Live :
        /\ Status(j) = "completed"
        /\ jobs[j].manifest.processed_images > 0
        /\ jobs[j].manifest.completed_at # <<>>
        /\ jobs[j].manifest.completed_at[1] > jobs[j].manifest.created_at

\* C17: update_status and update_job_name called with an id that has no
\* manifest change nothing in the store (no manifest or directory is
\* made, no other job is touched), and update_job_name returns false.
C17_UnknownIdIsNoOp ==
    [][ (/\ last'.op \in {"update_status", "update_job_name"}
         /\ load_manifest(jobs, last'.id.n) = None) =>
            /\ jobs' = jobs
            /\ temp' = temp
            /\ last'.op = "update_job_name" => ~last'.result ]_vars

\* update_job_name has returned false for the id of a job that was
\* deleted, other jobs being there.
C17_Witness ==
    /\ last.op = "update_job_name" /\ ~last.result
    /\ up[last.id.n].pc = "called" /\ jobs[last.id.n] = None
    /\ Live # {}

\* C18: for every id for which no job exists, delete_job returns false
\* and removes nothing; it returns true only for an id that was an
\* existing job just before the call.  (Stated as claimed; delete_job
\* looks for a directory, not for a manifest, and the staging directory
\* of an upload is a directory of the same base directory.)
C18_DeleteOnlyJobs ==
    (last.op = "delete_job" /\ last.result) =>
        /\ last.id.kind = "job"
        /\ last.removed # None
        /\ "manifest" \in DOMAIN last.removed

C20_ListJobsNewestFirst ==
    LET listed == list_jobs(jobs)
    IN  /\ { listed[i].job_id : i \in DOMAIN listed } = Live
        /\ Len(listed) = Cardinality(Live)
        /\ \A i \in DOMAIN listed : listed[i] = jobs[listed[i].job_id].manifest
        /\ \A i \in DOMAIN listed, k \in DOMAIN listed :
                i < k => listed[i].created_at >= listed[k].created_at

\* Two jobs are listed after a third was deleted, and the one of the
\* smaller id is the newer: it was created anew under its id.
C20_Witness ==
    /\ Cardinality(Live) = 2
    /\ \E j \in JobIds : up[j].pc = "called" /\ jobs[j] = None
    /\ list_jobs(jobs)[1].job_id < list_jobs(jobs)[2].job_id

\* C21: what get_detections returns right after save_detections(j, list)
\* has, record by record and in the order of the list, the filename,
\* the bounding boxes and confidences, success and error that were
\* passed, and nothing else (a second save replaces the first); a job
\* just created has no detections, and no other call changes what
\* get_detections returns for a job.
SameRecord(got, saved) ==
    /\ got.filename = saved.filename
    /\ got.success = saved.success
    /\ got.error = saved.error
    /\ Len(got.detections) = Len(saved.detections)
    /\ \A k \in DOMAIN saved.detections :
            /\ got.detections[k].bbox = saved.detections[k].bbox
            /\ got.detections[k].confidence = saved.detections[k].confidence

C21_DetectionsRoundTrip ==
    [][ \A j \in JobIds :
          /\ (last'.op = "save_detections" /\ last'.id = JobDir(j) /\ last'.result) =>
                LET got == get_detections(jobs', j)
                    saved == last'.detections
                IN  /\ got # NoFile
                    /\ Len(got[1]) = Len(saved)
                    /\ \A i \in DOMAIN saved : SameRecord(got[1][i], saved[i])
          /\ (jobs[j] = None /\ jobs'[j] # None) => get_detections(jobs', j) = NoFile
          /\ ( /\ ~(last'.op = "save_detections" /\ last'.id = JobDir(j))
               /\ jobs[j] # None /\ jobs'[j] # None ) =>
                get_detections(jobs', j) = get_detections(jobs, j) ]_vars

\* A second save_detections on a job has been read back: two calls were
\* made on job 1 and get_detections answers with the one-record list
\* while job 2 exists and has none.
C21_Witness ==
    /\ last.op = "get_detections" /\ last.id = JobDir(1) /\ last.result
    /\ nreqs >= 2
    /\ Len(last.records[1]) = 1
    /\ last.records[1][1].detections[1].confidence = 300
    /\ jobs[2] # None /\ get_detections(jobs, 2) = NoFile

\* The image files of the area a create_output_zip call with filters q
\* reads in job j.
ChosenImages(j, q) ==
    { f \in DOMAIN (IF q.use_original THEN jobs[j].input ELSE jobs[j].output) :
        validate_image_format(suffix(f)) }

\* The confidences recorded for a file name in job j, and the largest of
\* them (0 when there is none).  Where the records carry a name more
\* than once, the record of the file is the latest.
RecordedConfidences(j, f) ==
    LET carrying == { r \in DOMAIN Records(j) : Records(j)[r].filename = f }
        latest == CHOOSE r \in carrying : \A o \in carrying : o <= r
    IN  IF carrying = {} THEN {}
        ELSE { Records(j)[latest].detections[k].confidence :
                 k \in DOMAIN Records(j)[latest].detections }

RecordedMax(j, f) ==
    IF RecordedConfidences(j, f) = {} THEN 0
    ELSE CHOOSE m \in RecordedConfidences(j, f) :
            \A c \in RecordedConfidences(j, f) : c <= m

\* C22: a create_output_zip call with a positive min_confidence above
\* the largest recorded confidence of every image of the chosen area
\* answers none and leaves the job's files as they were: no archive is
\* written, not even an empty one.
C22_FloorAboveAllIsAbsent ==
    [][ \A j \in JobIds :
          ( /\ last'.op = "create_output_zip" /\ last'.id = JobDir(j)
            /\ jobs[j] # None
            /\ last'.params.min_confidence > 0
            /\ \A f \in ChosenImages(j, last'.params) :
                    RecordedMax(j, f) < last'.params.min_confidence )
          => /\ ~last'.result
             /\ last'.path = <<>>
             /\ jobs' = jobs ]_vars

\* Such a call was made on an area that holds an image with a recorded
\* detection (0.3, below the floor 0.304), and it answered none.
C22_Witness ==
    /\ last.op = "create_output_zip" /\ last.id = JobDir(1)
    /\ ~last.result
    /\ last.params.min_confidence = 304
    /\ jobs[1] # None
    /\ "a" \in ChosenImages(1, last.params)
    /\ RecordedMax(1, "a") = 300
    /\ \A f \in ChosenImages(1, last.params) : RecordedMax(1, f) < 304

\* C23: the archive a create_output_zip call writes holds exactly the
\* image files of the chosen area whose largest recorded confidence is
\* at least min_confidence and which, with only_with_detections, have a
\* recorded detection; a file without a record has none and counts 0.
C23_ArchiveHoldsTheFilteredImages ==
    [][ \A j \in JobIds :
          ( /\ last'.op = "create_output_zip" /\ last'.id = JobDir(j)
            /\ last'.result )
          => jobs'[j].zips[last'.path[1]] =
                { f \in ChosenImages(j, last'.params) :
                    /\ RecordedMax(j, f) >= last'.params.min_confidence
                    /\ last'.params.only_with_detections =>
                            RecordedConfidences(j, f) # {} } ]_vars

\* An archive of the processed images with a detection was written from
\* an area that holds an image recorded with a detection, an image
\* without a record and a text file: it holds the first only.
C23_Witness ==
    /\ last.op = "create_output_zip" /\ last.id = JobDir(1) /\ last.result
    /\ last.params = [use_original |-> FALSE, min_confidence |-> 296,
                      only_with_detections |-> TRUE]
    /\ DOMAIN jobs[1].output = {"a", "a_1", "t.txt"}
    /\ RecordedMax(1, "a") = 800
    /\ \A i \in DOMAIN Records(1) : Records(1)[i].filename # "a_1"
    /\ jobs[1].zips[last.path[1]] = {"a"}

\* C24: two create_output_zip calls in a row on one job with different
\* filters, each of which wrote an archive, wrote them under different
\* file names, and the second left the first one's archive as it was.
C24_FiltersHaveTheirOwnArchive ==
    [][ ( /\ last.op = "create_output_zip" /\ last.result
          /\ last'.op = "create_output_zip" /\ last'.result
          /\ last'.id = last.id
          /\ last'.params # last.params )
        => /\ last'.path # last.path
           /\ jobs'[last.id.n].zips[last.path[1]] =
                  jobs[last.id.n].zips[last.path[1]] ]_vars

\* C25: the name sanitize_filename returns holds no "/", is not empty,
\* "." or "..", and neither starts nor ends with a dot or a space; it is
\* the placeholder when the name given is empty or its last path
\* component is nothing but dots and spaces; and sanitize_filename
\* gives the returned name back unchanged.
C25_SanitizedNameIsSafe ==
    last.op = "sanitize_filename" =>
        LET given == last.filename
            r == last.returned
            slashes == { i \in DOMAIN given : given[i] = "/" }
            after == IF slashes = {} THEN 0
                     ELSE CHOOSE i \in slashes : \A k \in slashes : k <= i
        IN  /\ \A i \in DOMAIN r : r[i] # "/"
            /\ r # <<>> /\ r # <<".">> /\ r # <<".", ".">>
            /\ r[1] \notin {".", " "}
            /\ r[Len(r)] \notin {".", " "}
            /\ (\A i \in DOMAIN given : i > after => given[i] \in {".", " "})
                    => r = unnamed_file
            /\ sanitize_filename(r) = r

\* The path ../../../etc/passwd came back as its last component.
C25_Witness ==
    /\ last.op = "sanitize_filename"
    /\ Len(last.filename) > MaxName
    /\ last.filename[1] = "." /\ last.filename[3] = "/"
    /\ last.returned = <<"p", "a", "s", "s", "w", "d">>

\* The entries of an archive that are valid images: the extension is an
\* image format and the entry's bytes decode.
ValidEntries(zip_data) ==
    { i \in DOMAIN zip_data.members :
        /\ validate_image_format(zip_data.members[i].ext)
        /\ zip_data.members[i].data.ok }

\* C26: extract_zip_archive on an archive with N > 0 valid image entries
\* returns N files under pairwise distinct paths, and the directory
\* holds afterwards what it held before and these N files, none for an
\* invalid entry; with N = 0, or bytes that are no archive, it raises.
C26_ExtractsTheValidEntries ==
    last.op = "extract_zip_archive" =>
        LET N == Cardinality(ValidEntries(last.zip_data))
            files == last.extracted_files
            before == IF last.extract_to = None THEN {} ELSE DOMAIN last.extract_to
        IN  /\ ~last.zip_data.ok => ~last.result
            /\ (last.zip_data.ok /\ N = 0) => ~last.result
            /\ (last.zip_data.ok /\ N > 0) =>
                    /\ last.result
                    /\ Len(files) = N
                    /\ \A i, k \in DOMAIN files : i # k => files[i] # files[k]
                    /\ DOMAIN temp[1] = before \cup { files[i] : i \in DOMAIN files }

\* C27: the step that accepts an upload leaves its job in existence,
\* queued and with both counters 0; a queued job has both counters 0 in
\* every state; and a step in which the task handles an image, or the
\* manifest's processed_images grows, starts from the status
\* "processing".
C27_QueuedUntilTheTaskStarts ==
    [][ \A u \in JobIds :
          /\ (up[u].pc # "accepted" /\ up'[u].pc = "accepted") =>
                /\ jobs'[u] # None
                /\ jobs'[u].manifest.status = "queued"
                /\ jobs'[u].manifest.processed_images = 0
                /\ jobs'[u].manifest.images_with_detections = 0
                /\ task'[u].processed_count = 0
          /\ (jobs'[u] # None /\ jobs'[u].manifest.status = "queued") =>
                /\ jobs'[u].manifest.processed_images = 0
                /\ jobs'[u].manifest.images_with_detections = 0
          /\ ( /\ jobs[u] # None /\ jobs'[u] # None
               /\ \/ task'[u].processed_count > task[u].processed_count
                  \/ jobs'[u].manifest.processed_images >
                         jobs[u].manifest.processed_images ) =>
                jobs[u].manifest.status = "processing" ]_vars

\* An upload of two images has been accepted and its task has not
\* started: the job is queued with nothing processed.
C27_Witness ==
    /\ up[1].pc = "accepted" /\ task[1].pc = "scheduled"
    /\ jobs[1] # None
    /\ jobs[1].manifest.status = "queued"
    /\ jobs[1].manifest.total_images = 2
    /\ jobs[1].manifest.processed_images = 0

\* C28: whenever the task of a job stands between two of its images, a
\* status poll of the job can be served (there are requests left to
\* make).
C28_PollServedBetweenImages ==
    \A u \in JobIds :
        ( /\ task[u].pc = "loop"
          /\ task[u].i > 1 /\ task[u].i <= Len(up[u].paths)
          /\ nreqs < quota.requests )
        => ENABLED GetJobStatus(u)

\* C29: get_input_image_path and get_output_image_path return a path
\* exactly when the area of that job holds a file of the name asked for,
\* and the path returned leads to a file inside that area.
C29_PathsStayInTheArea ==
    last.op = "get_image_path" =>
        LET j == last.id.n
            held == IF jobs[j] = None THEN {}
                    ELSE IF last.area = "input" THEN DOMAIN jobs[j].input
                    ELSE DOMAIN jobs[j].output
        IN  /\ last.result <=>
                    (Len(last.filename) = 1 /\ last.filename[1] \in held)
            /\ last.result =>
                    /\ Len(last.leads_to) = 3
                    /\ last.leads_to[1] = j
                    /\ last.leads_to[2] = last.area

\* C30: while the task of an existing job stands between its k-th image
\* and the next (or the end of the loop), the manifest's
\* processed_images is k, whether the images were handled with success
\* or with an error.
C30_ManifestCountsEachImage ==
    \A u \in JobIds :
        (task[u].pc = "loop" /\ task[u].i > 1 /\ jobs[u] # None)
        => jobs[u].manifest.processed_images = task[u].i - 1

\* C31: within one job the file names the task has given are pairwise
\* distinct: no two of the records it holds, and no two of the records
\* it saved, carry the same filename.
C31_FilenamesDistinct ==
    \A u \in JobIds :
        /\ \A i, k \in DOMAIN task[u].results :
                i # k => task[u].results[i].filename # task[u].results[k].filename
        /\ jobs[u] # None =>
                \A i, k \in DOMAIN Records(u) :
                    i # k => Records(u)[i].filename # Records(u)[k].filename

\* C32: a job that was created by an accepted upload and has been
\* deleted stays deleted: no step, of its task or of anything else,
\* brings its directory back, and get_status stays absent.
C32_DeletedStaysDeleted ==
    [][ \A u \in JobIds :
          (up[u].pc = "accepted" /\ jobs[u] = None) =>
              /\ jobs'[u] = None
              /\ get_status(jobs', u) = None ]_vars

\* A job was deleted before its task ran; the task has since gone
\* through its images and its end, and the job is still gone.
C32_Witness ==
    /\ up[1].pc = "accepted" /\ jobs[1] = None
    /\ task[1].pc = "finally"
    /\ task[1].processed_count >= 1

\* C33: a rename and the job's task lose none of each other's updates:
\* a rename changes the name and nothing else of the job (status,
\* counters and completed_at stay as the task left them), and a step of
\* the job's task leaves the name as the rename left it.
C33_RenameAndTaskKeepEachOther ==
    [][ \A u \in JobIds :
          (jobs[u] # None /\ jobs'[u] # None) =>
              /\ (last'.op = "update_job_name" /\ last'.id = JobDir(u)) =>
                    jobs'[u] = [jobs[u] EXCEPT !.manifest.name = jobs'[u].manifest.name]
              /\ task'[u] # task[u] =>
                    jobs'[u].manifest.name = jobs[u].manifest.name ]_vars

\* A job created under the default name has just been renamed while its
\* task was still waiting to start.
C33_Witness ==
    /\ last.op = "update_job_name" /\ last.id = JobDir(1) /\ last.result
    /\ up[1].pc = "accepted" /\ up[1].name = <<>>
    /\ task[1].pc = "scheduled"
    /\ jobs[1] # None /\ jobs[1].manifest.name = "n"

\* C34: the job an upload creates gets a display name that no other
\* stored job carries, whatever the names the uploads asked for and
\* however the handlers of the uploads interleaved.
C34_UploadsGetDistinctNames ==
    [][ \A u \in JobIds :
          (up[u].pc # "accepted" /\ up'[u].pc = "accepted") =>
              \A v \in JobIds \ {u} :
                  jobs'[v] # None =>
                      jobs'[v].manifest.name # jobs'[u].manifest.name ]_vars

\* Two uploads asked for the same name; the second was accepted while
\* the first was still reading its files, so the first created its job
\* later, and both jobs are stored.
C34_Witness ==
    /\ up[1].pc = "accepted" /\ up[2].pc = "accepted"
    /\ up[1].name = up[2].name
    /\ jobs[1] # None /\ jobs[2] # None
    /\ jobs[2].manifest.created_at < jobs[1].manifest.created_at

\* C35: a step aimed at one job (a step of its task, the creation of the
\* job, a rename, a delete or a download of it) leaves every other job
\* as it was: its directory with manifest, records, images and archives,
\* its staged files and the position and results of its task.
C35_OtherJobsUnchanged ==
    [][ \A u \in JobIds :
          ( \/ task'[u] # task[u]
            \/ /\ last'.op \in {"update_job_name", "delete_job", "download"}
               /\ last'.id = JobDir(u) ) =>
              \A v \in JobIds \ {u} :
                  /\ jobs'[v] = jobs[v]
                  /\ temp'[v] = temp[v]
                  /\ task'[v] = task[v] ]_vars

\* The task of the second job is at work on its images while the first
\* job stands completed with its records.
C35_Witness ==
    /\ jobs[1] # None /\ jobs[1].manifest.status = "completed"
    /\ Len(Records(1)) >= 1
    /\ running = 2 /\ jobs[2] # None
    /\ task[2].processed_count >= 1

\* What of a job stays as its task left it: the manifest but for the
\* name, the detection records and the images of both areas.
Results(dir) ==
    [ manifest |-> [dir.manifest EXCEPT !.name = ""],
      detections |-> dir.detections,
      input |-> dir.input,
      output |-> dir.output ]

\* C36, as stated: once a job is completed, its status, counters,
\* completed_at, records and images stay as they are while the job
\* exists, and the job's directory is changed by nothing but a rename or
\* a delete of that job.
C36_OnlyRenameAndDeleteAfterCompleted ==
    [][ \A u \in JobIds :
          (jobs[u] # None /\ jobs[u].manifest.status = "completed") =>
              /\ jobs'[u] # None => Results(jobs'[u]) = Results(jobs[u])
              /\ jobs'[u] # jobs[u] =>
                    /\ last'.op \in {"update_job_name", "delete_job"}
                    /\ last'.id = JobDir(u) ]_vars

\* C36, amended: once a job is completed, its status, counters,
\* completed_at, records and images stay as they are while the job
\* exists; the job's directory is changed only by a rename, a delete or
\* a download of that job, a download adding an archive and no more.
C36_CompletedResultsNeverChange ==
    [][ \A u \in JobIds :
          (jobs[u] # None /\ jobs[u].manifest.status = "completed") =>
              /\ jobs'[u] # None => Results(jobs'[u]) = Results(jobs[u])
              /\ jobs'[u] # jobs[u] =>
                    /\ last'.op \in {"update_job_name", "delete_job", "download"}
                    /\ last'.id = JobDir(u)
                    /\ last'.op = "update_job_name" => jobs'[u].zips = jobs[u].zips
                    /\ last'.op = "delete_job" => jobs'[u] = None
                    /\ last'.op = "download" =>
                          /\ jobs'[u].manifest = jobs[u].manifest
                          /\ \A z \in DOMAIN jobs[u].zips :
                                z \in DOMAIN jobs'[u].zips ]_vars

\* A completed job with records has just been downloaded and holds the
\* archive that was built.
C36_Witness ==
    /\ last.op = "download" /\ last.id = JobDir(1) /\ last.result
    /\ jobs[1] # None /\ jobs[1].manifest.status = "completed"
    /\ Len(Records(1)) >= 1
    /\ DOMAIN jobs[1].zips # {}

\* C37: a download of a job that is unknown or not completed is
\* rejected and writes nothing, no archive in particular; a download
\* that returns an archive was asked of a completed job.
C37_DownloadOnlyWhenCompleted ==
    [][ \A u \in JobIds :
          (last'.op = "download" /\ last'.id = JobDir(u)) =>
              /\ (jobs[u] = None \/ jobs[u].manifest.status # "completed") =>
                    /\ ~last'.result
                    /\ jobs' = jobs
              /\ last'.result =>
                    /\ jobs[u] # None
                    /\ jobs[u].manifest.status = "completed" ]_vars

\* A download of a failed job, whose areas hold images, has just been
\* rejected, and the job holds no archive.
C37_Witness ==
    /\ last.op = "download" /\ last.id = JobDir(1) /\ ~last.result
    /\ jobs[1] # None /\ jobs[1].manifest.status = "failed"
    /\ DOMAIN jobs[1].output # {}
    /\ DOMAIN jobs[1].zips = {}

\* An ImageResult, or its stored record, is well formed: a failure has
\* an error and no detections, a success has no error.
WellFormed(r) ==
    /\ ~r.success => (r.error # <<>> /\ r.detections = <<>>)
    /\ r.success => r.error = <<>>

\* C38: every result the task holds and every record it saved is well
\* formed, and a completed job has one record for each of its images,
\* the record of an unreadable image being a failure.
C38_RecordsWellFormed ==
    \A u \in JobIds :
        /\ \A i \in DOMAIN task[u].results : WellFormed(task[u].results[i])
        /\ jobs[u] # None =>
              /\ \A i \in DOMAIN Records(u) : WellFormed(Records(u)[i])
              /\ Status(u) = "completed" =>
                    /\ Len(Records(u)) = Len(up[u].paths)
                    /\ \A i \in DOMAIN up[u].paths :
                          up[u].paths[i] = "b" => ~Records(u)[i].success

\* A completed job whose saved records hold a failure and a success
\* with a detection.
C38_Witness ==
    /\ jobs[1] # None /\ Status(1) = "completed"
    /\ \E i \in DOMAIN Records(1) : ~Records(1)[i].success
    /\ \E i \in DOMAIN Records(1) :
          Records(1)[i].success /\ Len(Records(1)[i].detections) > 0

\* C39: every detection in a job's stored records has a confidence of
\* at least the confidence_threshold of the job's manifest parameters.
C39_DetectionsMeetTheThreshold ==
    \A u \in JobIds :
        jobs[u] # None =>
            \A i \in DOMAIN Records(u) :
                \A k \in DOMAIN Records(u)[i].detections :
                    Records(u)[i].detections[k].confidence >=
                        jobs[u].manifest.parameters.confidence_threshold

\* A completed job with a threshold above zero whose records hold a
\* detection, and a readable image all of whose detections fell below
\* the threshold.
C39_Witness ==
    /\ jobs[1] # None /\ Status(1) = "completed"
    /\ jobs[1].manifest.parameters.confidence_threshold > 0
    /\ \E i \in DOMAIN Records(1) : Len(Records(1)[i].detections) > 0
    /\ \E i \in DOMAIN Records(1) :
          Records(1)[i].success /\ Records(1)[i].detections = <<>>

\* C40: while no model is loaded, no upload gets as far as a staging
\* directory, a job or a task (each is rejected at once), so no job
\* stands queued; the health check reports degraded; and as long as the
\* clients send requests, the health, list and status requests are
\* answered.
C40_DegradedWithoutModel ==
    ~quota.model_loaded =>
        /\ \A u \in JobIds :
              /\ temp[u] = None /\ jobs[u] = None /\ task[u] = NoTask
              /\ up[u].pc \in {"idle", "rejected"}
              /\ up[u].pc = "rejected" => up[u].detail = "detector not initialized"
        /\ last.op = "health_check" =>
              (last.status = "degraded" /\ ~last.model_loaded)
        /\ last.op = "list_jobs" => last.jobs = <<>>
        /\ nreqs < quota.requests =>
              /\ ENABLED HealthCheck
              /\ ENABLED ListJobs
              /\ \A u \in JobIds : up[u].pc # "idle" => ENABLED GetJobStatus(u)

\* No model is loaded: an upload has been rejected and the health check
\* then answered degraded.
C40_Witness ==
    /\ ~quota.model_loaded
    /\ up[1].pc = "rejected"
    /\ last.op = "health_check" /\ last.status = "degraded"

====
